---- MODULE Spec2Model ----
(***************************************************************************)
(* A model of the MCP manager: the response cache, the permission engine,  *)
(* the namespacing of tool names and resource uris, and the aggregation of *)
(* tool listings over the running backends.                                *)
(*                                                                         *)
(* Strings that the program takes apart (server ids, tool names, patterns, *)
(* uris) are sequences of one-character strings; opaque strings (cache     *)
(* keys, payloads, client ids) are TLA+ strings or numbers.                *)
(***************************************************************************)
EXTENDS Integers, Sequences, FiniteSets, TLC

VARIABLES
    cache,      \* ResponseCache.cache: the dict, in its iteration order
    max_size,   \* ResponseCache.max_size
    now,        \* datetime.now(), in seconds
    last,       \* the last cache call: its arguments, its time, what it returned
    client_rules,   \* PermissionEngine.client_rules (config.clients)
    verdict,        \* the last access check: its arguments and what it returned
    processes,      \* MCPServerManager.processes: the dict, in its iteration order
    listing,        \* the last list_tools request: who asked, what came back
    naming,         \* a name on its way out to the client and back
    sm_config,      \* MCPServerManager.config
    mgr_config,     \* MCPManager.config
    config_file,    \* the configuration file, as load_config would read it now
    sup_last,       \* the last supervisor operation: what it found, what it did
    client_order,   \* the keys of config.clients, in declared order
    front_last,     \* the last front-end request: who sent it, what came back
    objects,        \* the MCPProcess objects that were created, in that order
    registry,       \* MCPServerManager.processes as references: id -> object
    tasks           \* the asyncio tasks: the call each one is in, and where

cacheVars  == <<cache, max_size, now, last>>
accessVars == <<client_rules, verdict>>
routerVars == <<processes, listing>>
supVars    == <<sm_config, mgr_config, config_file, sup_last>>
frontVars  == <<client_order, front_last>>
taskVars   == <<objects, registry, tasks>>

vars == <<cache, max_size, now, last, client_rules, verdict, processes, listing, naming,
          sm_config, mgr_config, config_file, sup_last, client_order, front_last,
          objects, registry, tasks>>

(***************************************************************************)
(* Bounds of the model.                                                    *)
(***************************************************************************)
MaxSize == 2        \* max_size of the cache the interleaving runs on
MaxTime == 1        \* the clock runs 0..MaxTime

(***************************************************************************)
(* Program constants.                                                      *)
(***************************************************************************)
DefaultTTL    == 300    \* ResponseCache.default_ttl
CleanupPeriod == 100    \* set() drops expired entries when len % 100 == 0
EvictDivisor  == 10     \* _evict_oldest removes len // 10 entries

None  == "None"
NoTTL == -1         \* the ttl argument left out (ttl is None)

Keys     == {1, 2, 3}
Payloads == {"v1", "v2"}
TTLArgs  == {NoTTL, 0, 1}    \* ttl left out, expiring at once, one second

Max(a, b) == IF a >= b THEN a ELSE b

(***************************************************************************)
(* The parts of the program a specification leaves out stay as they are    *)
(* after construction.                                                     *)
(***************************************************************************)
NoVerdict == [kind |-> "none", client |-> None, server |-> <<>>, item |-> <<>>,
              result |-> FALSE]

NoListing == [status |-> "none", client |-> None, answers |-> <<>>,
              aggregated |-> <<>>, tools |-> <<>>]

NoNaming == [stage |-> "none", kind |-> None, server_id |-> <<>>, name |-> <<>>,
             exposed |-> <<>>, parsed |-> <<>>]

AccessIdle == client_rules = <<>> /\ verdict = NoVerdict

RouterIdle == processes = <<>> /\ listing = NoListing

NamingIdle == naming = NoNaming

\* the keys of config.servers
ServerIds == {<<"a">>, <<"a", ".", "b">>, <<"c">>}

\* a ServerConfig with the defaults of its model: stdio, config {}, enabled
\* the characters of the strings the program takes apart
Chars(s) ==
    CASE s = "claude-desktop" ->
            <<"c", "l", "a", "u", "d", "e", "-", "d", "e", "s", "k", "t", "o", "p">>
      [] s = "claude*" -> <<"c", "l", "a", "u", "d", "e", "*">>
      [] s = "vscode" -> <<"v", "s", "c", "o", "d", "e">>
      [] s = "v*e" -> <<"v", "*", "e">>
      [] s = "ide" -> <<"i", "d", "e">>
      [] s = "stdio" -> <<"s", "t", "d", "i", "o">>
      [] s = "sse" -> <<"s", "s", "e">>
      [] s = "npm:pkg" -> <<"n", "p", "m", ":", "p", "k", "g">>
      [] s = "npm:other" -> <<"n", "p", "m", ":", "o", "t", "h", "e", "r">>
      [] s = "pip:pkg" -> <<"p", "i", "p", ":", "p", "k", "g">>
      [] OTHER -> <<>>

BaseServer == [source |-> "npm:pkg", version |-> None, transport |-> "stdio",
               config |-> "{}", enabled |-> TRUE]

\* a configuration whose servers all are BaseServer, with the RuntimeConfig
\* defaults
DefaultConfig == [servers |-> [server_id \in ServerIds |-> BaseServer],
                  clients |-> <<>>,
                  auto_restart_failed_servers |-> TRUE,
                  max_concurrent_requests |-> 100]

NoSupCall == [op |-> "none", server_id |-> <<>>, unhealthy |-> {}, failed |-> {},
              raised |-> FALSE]

NoRequest == [kind |-> "none", name |-> <<>>, arguments |-> None, client_name |-> None,
              transport_type |-> None, client_id |-> None, allowed |-> FALSE,
              routed |-> FALSE, code |-> None, text |-> None, payload |-> None, at |-> 0]

SupervisorIdle ==
    /\ sm_config = DefaultConfig
    /\ mgr_config = DefaultConfig
    /\ config_file = DefaultConfig
    /\ sup_last = NoSupCall

FrontIdle == client_order = <<>> /\ front_last = NoRequest

\* the ids of the tasks that call the supervisor and the sessions
TaskIds == {1, 2}

\* a task that has called nothing yet
NoTask == [call |-> "none", pc |-> "idle", server_id |-> <<>>, object |-> 0,
           at_status |-> None, exceptions |-> {}]

TaskIdle ==
    /\ objects = <<>>
    /\ registry = [server_id \in {<<"c">>} |-> 0]
    /\ tasks = [t \in TaskIds |-> NoTask]

(***************************************************************************)
(* CacheEntry                                                              *)
(***************************************************************************)
\* an entry whose expiry ignores the ttl
CacheEntryNoTTL(key, data, ttl_seconds, t) ==
    [key |-> key, data |-> data, created_at |-> t, expires_at |-> t]

CacheEntry(key, data, ttl_seconds, t) ==
    [key |-> key, data |-> data, created_at |-> t, expires_at |-> t + ttl_seconds]

\* a comparison that counts the expiry instant itself as expired
IsExpiredAtExpiry(entry, t) == t >= entry.expires_at

IsExpired(entry, t) == t > entry.expires_at

(***************************************************************************)
(* ResponseCache                                                           *)
(***************************************************************************)
CacheKeys(c) == {c[i].key : i \in 1..Len(c)}

\* dict.get: the position of the key, 0 when absent
Position(c, key) ==
    IF key \in CacheKeys(c)
    THEN CHOOSE i \in 1..Len(c) : c[i].key = key
    ELSE 0

Without(c, keys) == SelectSeq(c, LAMBDA e : e.key \notin keys)

CleanupExpiredUnlocked(c, t) ==
    Without(c, {c[i].key : i \in {j \in 1..Len(c) : IsExpired(c[j], t)}})

\* a sort that puts the newest entries first
SortRankNewestFirst(c, i) ==
    Cardinality({j \in 1..Len(c) :
        \/ c[j].created_at > c[i].created_at
        \/ c[j].created_at = c[i].created_at /\ j < i})

\* sorted() is stable: entries of equal created_at keep the dict's order
SortRank(c, i) ==
    Cardinality({j \in 1..Len(c) :
        \/ c[j].created_at < c[i].created_at
        \/ c[j].created_at = c[i].created_at /\ j < i})

EvictCount(c) == Max(1, Len(c) \div EvictDivisor)

\* an eviction that removes nothing
EvictNothing(c) == c

EvictOldest(c) ==
    Without(c, {c[i].key : i \in {j \in 1..Len(c) : SortRank(c, j) < EvictCount(c)}})

\* self.cache[key] = entry: an existing key keeps its place in the dict
Store(c, entry) ==
    IF Position(c, entry.key) = 0
    THEN Append(c, entry)
    ELSE [c EXCEPT ![Position(c, entry.key)] = entry]

EffectiveTTL(ttl) == IF ttl = NoTTL THEN DefaultTTL ELSE ttl

AfterCleanup(c, t) ==
    IF Len(c) % CleanupPeriod = 0 THEN CleanupExpiredUnlocked(c, t) ELSE c

AfterEviction(c, size) ==
    IF Len(c) >= size THEN EvictOldest(c) ELSE c

SetResult(c, size, key, data, ttl, t) ==
    Store(AfterEviction(AfterCleanup(c, t), size),
          CacheEntry(key, data, EffectiveTTL(ttl), t))

\* what one call of _evict_oldest and of the cleanup before it took out
Evicted(c, size, t) ==
    Len(AfterCleanup(c, t)) - Len(AfterEviction(AfterCleanup(c, t), size))

CacheSet(key, data, ttl) ==
    /\ cache' = SetResult(cache, max_size, key, data, ttl, now)
    /\ last' = [op |-> "set", key |-> key, data |-> data, ttl |-> ttl, at |-> now,
                evicted |-> Evicted(cache, max_size, now), result |-> None]
    /\ UNCHANGED <<max_size, now, accessVars, routerVars, naming, supVars, frontVars,
                   taskVars>>

GetHit(c, key, t) ==
    /\ Position(c, key) # 0
    /\ ~IsExpired(c[Position(c, key)], t)

CacheGet(key) ==
    /\ cache' = IF Position(cache, key) # 0 /\ IsExpired(cache[Position(cache, key)], now)
                THEN Without(cache, {key})
                ELSE cache
    /\ last' = [op |-> "get", key |-> key, data |-> None, ttl |-> NoTTL, at |-> now, evicted |-> 0,
                result |-> IF GetHit(cache, key, now)
                           THEN cache[Position(cache, key)].data
                           ELSE None]
    /\ UNCHANGED <<max_size, now, accessVars, routerVars, naming, supVars, frontVars,
                   taskVars>>

CacheDelete(key) ==
    /\ cache' = Without(cache, {key})
    /\ last' = [op |-> "delete", key |-> key, data |-> None, ttl |-> NoTTL, at |-> 0, evicted |-> 0, result |-> None]
    /\ UNCHANGED <<max_size, now, accessVars, routerVars, naming, supVars, frontVars,
                   taskVars>>

CacheClear ==
    /\ cache' = <<>>
    /\ last' = [op |-> "clear", key |-> 0, data |-> None, ttl |-> NoTTL, at |-> 0, evicted |-> 0, result |-> None]
    /\ UNCHANGED <<max_size, now, accessVars, routerVars, naming, supVars, frontVars,
                   taskVars>>

\* time passes between two calls
Tick ==
    /\ now < MaxTime
    /\ now' = now + 1
    /\ UNCHANGED <<cache, max_size, last, accessVars, routerVars, naming, supVars, frontVars,
                   taskVars>>

NoCall == [op |-> "init", key |-> 0, data |-> None, ttl |-> NoTTL, at |-> 0, evicted |-> 0, result |-> None]

CacheInit ==
    /\ cache = <<>>
    /\ max_size = MaxSize
    /\ now = 0
    /\ last = NoCall
    /\ AccessIdle /\ RouterIdle /\ NamingIdle /\ SupervisorIdle /\ FrontIdle /\ TaskIdle

CacheNext ==
    \/ \E key \in Keys, data \in Payloads, ttl \in TTLArgs : CacheSet(key, data, ttl)
    \/ \E key \in Keys : CacheGet(key)
    \/ \E key \in Keys : CacheDelete(key)
    \/ CacheClear
    \/ Tick

CacheSpec == CacheInit /\ [][CacheNext]_vars

(***************************************************************************)
(* set() on a full cache.  A ResponseCache(max_size = n) that n calls of   *)
(* set at the clock readings 0 and 1 have filled, read at clock 2: the     *)
(* entries of one side of `split` were written at 0 and the others at 1,   *)
(* in dict order or against it (`young_first`, after overwrites), and the  *)
(* entries at the positions `stale` were written with ttl 0 and have       *)
(* expired.  Keys are the positions 1..n; n + 1 is a key not yet stored.   *)
(***************************************************************************)
FullSizes == {2, 10, 100, 101}

Splits(n) == {0, 1, n \div 2, n - 1}

StaleSets(n) == {{}, {1}, {n}, 1..(n \div 2), 1..n}

FullCache(n, split, young_first, stale) ==
    [i \in 1..n |->
        LET t == IF (i <= split) = young_first THEN 1 ELSE 0
        IN  CacheEntry(i, "v1", IF i \in stale THEN 0 ELSE DefaultTTL, t)]

EvictInit ==
    \E n \in FullSizes :
        \E split \in Splits(n), young_first \in BOOLEAN, stale \in StaleSets(n) :
            /\ cache = FullCache(n, split, young_first, stale)
            /\ max_size = n
            /\ now = 2
            /\ last = NoCall
            /\ AccessIdle /\ RouterIdle /\ NamingIdle /\ SupervisorIdle /\ FrontIdle /\ TaskIdle

\* the calls of set that find the cache full
EvictNext ==
    /\ Len(cache) >= max_size
    /\ \E key \in {1, max_size, max_size + 1}, ttl \in {NoTTL, 0} :
            CacheSet(key, "v2", ttl)

EvictSpec == EvictInit /\ [][EvictNext]_vars

(***************************************************************************)
(* Claims about the response cache                                         *)
(***************************************************************************)
\* a step of the cache that is a call of get (time stands still in a call)
IsGetStep == last'.op = "get" /\ now' = now

Present(c, key) == Position(c, key) # 0
EntryOf(c, key) == c[Position(c, key)]

\* a step of the cache that is a call of set
IsSetStep == last'.op = "set" /\ now' = now

\* C1: under every interleaving of set, get, delete and clear the cache
\* never holds more than max_size entries.
C1_SizeWithinMax == Len(cache) <= max_size

\* a set that found the cache full has evicted and left it full
C1_Witness ==
    /\ last.op = "set"
    /\ last.evicted > 0
    /\ Len(cache) = max_size

C3_GetHitsStrictlyBeforeExpiry ==
    [][IsGetStep =>
        LET k == last'.key
        IN  IF Present(cache, k)
            THEN IF now < EntryOf(cache, k).expires_at
                 THEN last'.result = EntryOf(cache, k).data /\ cache' = cache
                 ELSE last'.result = None /\ ~Present(cache', k)
            ELSE last'.result = None /\ cache' = cache]_vars

\* C3 as amended: get returns the payload exactly when the key is present
\* and now <= expires-at, leaving the cache unchanged; when the entry is
\* present and now > expires-at, get removes that entry alone and returns a
\* miss; when the key is absent, get returns a miss and leaves the cache
\* unchanged.
C3_GetHitsUntilExpiry ==
    [][IsGetStep =>
        LET k == last'.key
        IN  IF Present(cache, k)
            THEN IF now <= EntryOf(cache, k).expires_at
                 THEN last'.result = EntryOf(cache, k).data /\ cache' = cache
                 ELSE /\ last'.result = None
                      /\ ~Present(cache', k)
                      /\ CacheKeys(cache') = CacheKeys(cache) \ {k}
                      /\ \A j \in CacheKeys(cache') :
                            EntryOf(cache', j) = EntryOf(cache, j)
            ELSE last'.result = None /\ cache' = cache]_vars

\* a get at the very expiry instant of a present entry returned its payload
C3_Witness ==
    /\ last.op = "get"
    /\ last.result \in Payloads
    /\ Present(cache, last.key)
    /\ EntryOf(cache, last.key).expires_at = last.at

IndexOf(s, sub) ==
    LET at == {i \in 1..(Len(s) - Len(sub) + 1) : SubSeq(s, i, i + Len(sub) - 1) = sub}
    IN  IF at = {} THEN 0 ELSE CHOOSE i \in at : \A j \in at : i <= j

\* s.split(sub, 1) of a string that holds sub
SplitOnce(s, sub) ==
    <<SubSeq(s, 1, IndexOf(s, sub) - 1),
      SubSeq(s, IndexOf(s, sub) + Len(sub), Len(s))>>

\* fnmatch.fnmatch with the wildcards * and ? (no [seq] classes, posix case)
RECURSIVE FnMatch(_, _)
FnMatch(name, pattern) ==
    IF pattern = <<>> THEN name = <<>>
    ELSE IF Head(pattern) = "*"
         THEN \/ FnMatch(name, Tail(pattern))
              \/ name # <<>> /\ FnMatch(Tail(name), pattern)
         ELSE /\ name # <<>>
              /\ Head(pattern) = "?" \/ Head(pattern) = Head(name)
              /\ FnMatch(Tail(name), Tail(pattern))

WildcardMatch(item_name, patterns) ==
    \E i \in 1..Len(patterns) : FnMatch(item_name, patterns[i])

\* a match in which a rule that lists items of the other kind only says
\* nothing about the items of this kind
MatchesAccessRuleOfItsKind(rule, server_id, item_name, item_type) ==
    IF rule.server # server_id THEN FALSE
    ELSE IF item_type \notin {"tools", "resources"} THEN FALSE
    ELSE LET items == IF item_type = "tools" THEN rule.tools ELSE rule.resources
             others == IF item_type = "tools" THEN rule.resources ELSE rule.tools
         IN  IF items = <<>> THEN others = <<>>
             ELSE \/ \E i \in 1..Len(items) : items[i] = item_name
                  \/ \E i \in 1..Len(items) : items[i] = <<"*">>
                  \/ WildcardMatch(item_name, items)

MatchesAccessRule(rule, server_id, item_name, item_type) ==
    IF rule.server # server_id THEN FALSE
    ELSE IF item_type \notin {"tools", "resources"} THEN FALSE
    ELSE LET items == IF item_type = "tools" THEN rule.tools ELSE rule.resources
         IN  IF items = <<>> THEN TRUE
             ELSE \/ \E i \in 1..Len(items) : items[i] = item_name
                  \/ \E i \in 1..Len(items) : items[i] = <<"*">>
                  \/ WildcardMatch(item_name, items)

ExtractResourceName(resource_uri) ==
    IF IndexOf(resource_uri, <<":", "/", "/">>) # 0
    THEN LET path == SplitOnce(resource_uri, <<":", "/", "/">>)[2]
         IN  IF IndexOf(path, <<"/">>) # 0
             THEN SplitOnce(path, <<"/">>)[2]
             ELSE path
    ELSE resource_uri

\* dict.get answers <<rule>>, or <<>> for None
NoRule == <<>>

\* a lookup that knows no fallback
LookupRuleNoDefault(rules, client_id) ==
    IF client_id \in DOMAIN rules THEN <<rules[client_id]>> ELSE NoRule

\* client_rules.get(client_id), then client_rules.get("default")
LookupRule(rules, client_id) ==
    IF client_id \in DOMAIN rules THEN <<rules[client_id]>>
    ELSE IF "default" \in DOMAIN rules THEN <<rules["default"]>>
    ELSE NoRule

\* the loops of a check: the first matching rule of a list returns
AnyMatches(access_rules, server_id, item_name, item_type) ==
    \E i \in 1..Len(access_rules) :
        MatchesAccessRule(access_rules[i], server_id, item_name, item_type)

\* a check that looks at the allow rules before the deny rules
CheckToolAccessAllowFirst(rules, client_id, server_id, tool_name) ==
    LET found == LookupRule(rules, client_id)
        rule  == found[1]
    IN  IF found = NoRule THEN FALSE
        ELSE IF AnyMatches(rule.allow, server_id, tool_name, "tools") THEN TRUE
        ELSE IF AnyMatches(rule.deny, server_id, tool_name, "tools") THEN FALSE
        ELSE ~rule.deny_all_except_allowed

CheckToolAccess(rules, client_id, server_id, tool_name) ==
    LET found == LookupRule(rules, client_id)
        rule  == found[1]
    IN  IF found = NoRule THEN FALSE
        ELSE IF AnyMatches(rule.deny, server_id, tool_name, "tools") THEN FALSE
        ELSE IF AnyMatches(rule.allow, server_id, tool_name, "tools") THEN TRUE
        ELSE IF rule.deny_all_except_allowed THEN FALSE
        ELSE TRUE

\* a check whose default policy is to allow
CheckResourceAccessOpen(rules, client_id, server_id, resource_uri) ==
    LET found == LookupRule(rules, client_id)
        rule  == found[1]
        resource_name == ExtractResourceName(resource_uri)
    IN  IF found = NoRule THEN FALSE
        ELSE IF AnyMatches(rule.deny, server_id, resource_name, "resources") THEN FALSE
        ELSE TRUE

CheckResourceAccess(rules, client_id, server_id, resource_uri) ==
    LET found == LookupRule(rules, client_id)
        rule  == found[1]
        resource_name == ExtractResourceName(resource_uri)
    IN  IF found = NoRule THEN FALSE
        ELSE IF AnyMatches(rule.deny, server_id, resource_name, "resources") THEN FALSE
        ELSE IF AnyMatches(rule.allow, server_id, resource_name, "resources") THEN TRUE
        ELSE ~rule.deny_all_except_allowed

(***************************************************************************)
(* The access checks over a family of configurations.  Server ids are the  *)
(* keys of config.servers, any string; the client "ide" may have a rule,   *)
(* the client "guest" has none, and a rule "default" may be there.         *)
(***************************************************************************)
ToolNames == {<<"t">>, <<"r", "1">>, <<"b", ".", "t">>}

ResourceUris == {<<"x">>, <<"f", ":", "/", "/", "h", "/", "x">>, <<"f", ":", "/", "/", "y">>}

ClientIds == {"ide", "guest"}

\* the tools of an AccessRule: all, a literal, the star, wildcards
ToolLists ==
    {<<>>, << <<"t">> >>, << <<"*">> >>, << <<"r", "*">> >>, << <<"t">>, <<"r", "?">> >>}

ResourceLists == {<<>>, << <<"x">> >>}

RuleServers == {<<"a">>, <<"a", ".", "b">>}

AccessRules == [server : RuleServers, tools : ToolLists, resources : ResourceLists]

\* the rules of the lists that hold two rules
PairRules ==
    {[server |-> <<"a">>, tools |-> << <<"t">> >>, resources |-> << <<"x">> >>],
     [server |-> <<"a", ".", "b">>, tools |-> <<>>, resources |-> <<>>]}

RuleLists ==
    {<<>>} \cup {<<r>> : r \in AccessRules} \cup {<<r, q>> : r \in PairRules, q \in PairRules}

ClientRules == [allow : RuleLists, deny : RuleLists, deny_all_except_allowed : BOOLEAN]

DefaultRules ==
    {[allow |-> <<>>, deny |-> <<>>, deny_all_except_allowed |-> FALSE],
     [allow |-> <<>>, deny |-> <<>>, deny_all_except_allowed |-> TRUE],
     [allow |-> <<>>, deny_all_except_allowed |-> FALSE,
      deny |-> <<[server |-> <<"a">>, tools |-> <<>>, resources |-> <<>>]>>]}

\* config.clients: a dict from client id to ClientRule
ClientConfigs ==
    {<<>>}
    \cup {[c \in {"ide"} |-> r] : r \in ClientRules}
    \cup {[c \in {"default"} |-> d] : d \in DefaultRules}
    \cup {[c \in {"ide", "default"} |-> IF c = "ide" THEN r ELSE d] :
            r \in ClientRules, d \in DefaultRules}

CacheIdle ==
    /\ cache = <<>>
    /\ max_size = MaxSize
    /\ now = 0
    /\ last = NoCall

CallCheckToolAccess(client_id, server_id, tool_name) ==
    /\ verdict' = [kind |-> "tool", client |-> client_id, server |-> server_id,
                   item |-> tool_name,
                   result |-> CheckToolAccess(client_rules, client_id, server_id, tool_name)]
    /\ UNCHANGED <<client_rules, cacheVars, routerVars, naming, supVars, frontVars,
                   taskVars>>

CallCheckResourceAccess(client_id, server_id, resource_uri) ==
    /\ verdict' = [kind |-> "resource", client |-> client_id, server |-> server_id,
                   item |-> resource_uri,
                   result |-> CheckResourceAccess(client_rules, client_id, server_id,
                                                  resource_uri)]
    /\ UNCHANGED <<client_rules, cacheVars, routerVars, naming, supVars, frontVars,
                   taskVars>>

AccessInit ==
    /\ client_rules \in ClientConfigs
    /\ verdict = NoVerdict
    /\ CacheIdle /\ RouterIdle /\ NamingIdle /\ SupervisorIdle /\ FrontIdle /\ TaskIdle

AccessNext ==
    \/ \E c \in ClientIds, s \in ServerIds, t \in ToolNames : CallCheckToolAccess(c, s, t)
    \/ \E c \in ClientIds, s \in ServerIds, u \in ResourceUris : CallCheckResourceAccess(c, s, u)

AccessSpec == AccessInit /\ [][AccessNext]_vars

(***************************************************************************)
(* Claims about the permission engine                                      *)
(***************************************************************************)
\* the rule in force for the client of the last check: its own, else `default`
C_HasRule ==
    verdict.client \in DOMAIN client_rules \/ "default" \in DOMAIN client_rules

C_Rule ==
    IF verdict.client \in DOMAIN client_rules
    THEN client_rules[verdict.client]
    ELSE client_rules["default"]

\* the name a check matches: the tool name, or the path of a resource uri
\* behind its scheme and first segment
C_Item ==
    IF verdict.kind = "tool" THEN verdict.item
    ELSE LET u == verdict.item
             s == {i \in 1..(Len(u) - 2) : SubSeq(u, i, i + 2) = <<":", "/", "/">>}
         IN  IF s = {} THEN u
             ELSE LET i == CHOOSE k \in s : \A j \in s : k <= j
                      path == SubSeq(u, i + 3, Len(u))
                      t == {k \in 1..Len(path) : path[k] = "/"}
                  IN  IF t = {} THEN path
                      ELSE SubSeq(path, 1 + (CHOOSE k \in t : \A j \in t : k <= j), Len(path))

\* shell-style matching of a name against a pattern with * and ?, by the
\* positions of the name each prefix of the pattern can reach
C_Glob(name, pattern) ==
    LET reach[k \in 0..Len(pattern)] ==
            IF k = 0 THEN {0}
            ELSE IF pattern[k] = "*"
                 THEN {j \in 0..Len(name) : \E i \in reach[k - 1] : i <= j}
                 ELSE {j \in 1..Len(name) :
                        /\ j - 1 \in reach[k - 1]
                        /\ pattern[k] = "?" \/ pattern[k] = name[j]}
    IN  Len(name) \in reach[Len(pattern)]

\* an access rule covers (server, item): same server, and no item list, or a
\* pattern of the list that the item fits
C_Covers(access_rule) ==
    /\ access_rule.server = verdict.server
    /\ LET items == IF verdict.kind = "tool" THEN access_rule.tools
                    ELSE access_rule.resources
       IN  \/ items = <<>>
           \/ \E i \in 1..Len(items) : C_Glob(C_Item, items[i])

C_DenyMatches == \E i \in 1..Len(C_Rule.deny) : C_Covers(C_Rule.deny[i])

C_AllowMatches == \E i \in 1..Len(C_Rule.allow) : C_Covers(C_Rule.allow[i])

\* C5: whenever a deny rule of the client's effective rule matches
\* (server, tool), check_tool_access returns false, whatever allow rules
\* match as well and whatever deny_all_except_allowed is.
C5_DenyTakesPrecedence ==
    (verdict.kind = "tool" /\ C_HasRule /\ C_DenyMatches) => verdict.result = FALSE

\* a tool check was refused although an allow rule matched and the default
\* policy is open: a deny rule matched too
C5_Witness ==
    /\ verdict.kind = "tool"
    /\ C_HasRule
    /\ C_DenyMatches
    /\ C_AllowMatches
    /\ ~C_Rule.deny_all_except_allowed
    /\ verdict.result = FALSE

\* C6: when neither a deny rule nor an allow rule of the client's effective
\* rule matches (server, item), check_tool_access and check_resource_access
\* return false if deny_all_except_allowed is true and true otherwise.
C6_DefaultPolicy ==
    (verdict.kind \in {"tool", "resource"} /\ C_HasRule
        /\ ~C_DenyMatches /\ ~C_AllowMatches)
    => verdict.result = ~C_Rule.deny_all_except_allowed

\* a resource check that no rule of a non-empty rule set matched was refused
\* by deny_all_except_allowed
C6_Witness ==
    /\ verdict.kind = "resource"
    /\ C_HasRule
    /\ C_Rule.allow # <<>>
    /\ C_Rule.deny # <<>>
    /\ ~C_DenyMatches
    /\ ~C_AllowMatches
    /\ C_Rule.deny_all_except_allowed
    /\ verdict.result = FALSE

\* what a ClientRule decides for the (server, item) of the last check
C_Decides(rule) ==
    /\ ~\E i \in 1..Len(rule.deny) : C_Covers(rule.deny[i])
    /\ \/ \E i \in 1..Len(rule.allow) : C_Covers(rule.allow[i])
       \/ ~rule.deny_all_except_allowed

\* C7: a check for a client id without an entry in the client rules is
\* decided by the rule named `default`, and returns false when there is no
\* `default` rule either.
C7_UnknownClientUsesDefault ==
    (verdict.kind \in {"tool", "resource"} /\ verdict.client \notin DOMAIN client_rules)
    => IF "default" \in DOMAIN client_rules
       THEN verdict.result = C_Decides(client_rules["default"])
       ELSE verdict.result = FALSE

\* a client without an entry was let in by the rule `default` while the rule
\* of another client would have refused the same access
C7_Witness ==
    /\ verdict.kind = "tool"
    /\ verdict.client \notin DOMAIN client_rules
    /\ "default" \in DOMAIN client_rules
    /\ "ide" \in DOMAIN client_rules
    /\ ~C_Decides(client_rules["ide"])
    /\ verdict.result = TRUE

(***************************************************************************)
(* Namespacing: the aggregator writes the exposed names, the router and    *)
(* the middleware parse them.                                              *)
(***************************************************************************)
Dot    == <<".">>
Slash  == <<"/">>
McpScheme == <<"m", "c", "p", ":", "/", "/">>

\* f"{server_id}.{tool.name}"
NamespaceTool(server_id, name) == server_id \o Dot \o name

\* f"mcp://{server_id}/{resource.uri}"
NamespaceResource(server_id, uri) == McpScheme \o server_id \o Slash \o uri

\* the ValueError of a name that is not namespaced
ParseError == <<>>

ParseNamespacedTool(tool_name) ==
    IF IndexOf(tool_name, Dot) # 0
    THEN SplitOnce(tool_name, Dot)
    ELSE ParseError

ParseNamespacedResource(resource_uri) ==
    IF Len(resource_uri) >= Len(McpScheme)
       /\ SubSeq(resource_uri, 1, Len(McpScheme)) = McpScheme
    THEN LET uri_parts == SubSeq(resource_uri, Len(McpScheme) + 1, Len(resource_uri))
         IN  IF IndexOf(uri_parts, Slash) # 0
             THEN SplitOnce(uri_parts, Slash)
             ELSE <<uri_parts, <<>>>>
    ELSE ParseError

\* the server ids, tool names and resource uris a name is built from
NamingServerIds == ServerIds \cup {<<"a", "/", "b">>, <<"f", "s">>}

NamingTools == ToolNames \cup {<<"r", "e", "a", "d">>}

NamingUris == ResourceUris \cup {<<"d", "/", "e">>}

NamingInputs(kind) == IF kind = "tool" THEN NamingTools ELSE NamingUris

Namespace(kind, server_id, name) ==
    IF kind = "tool" THEN NamespaceTool(server_id, name)
    ELSE NamespaceResource(server_id, name)

ParseNamespaced(kind, exposed) ==
    IF kind = "tool" THEN ParseNamespacedTool(exposed)
    ELSE ParseNamespacedResource(exposed)

\* the aggregator rewrites an item of a backend
Expose ==
    /\ naming.stage = "backend"
    /\ naming' = [naming EXCEPT !.stage = "exposed",
                    !.exposed = Namespace(naming.kind, naming.server_id, naming.name)]
    /\ UNCHANGED <<cacheVars, accessVars, routerVars, supVars, frontVars,
                   taskVars>>

\* the client sends the exposed name back and the router parses it
ParseExposed ==
    /\ naming.stage = "exposed"
    /\ naming' = [naming EXCEPT !.stage = "parsed",
                    !.parsed = ParseNamespaced(naming.kind, naming.exposed)]
    /\ UNCHANGED <<cacheVars, accessVars, routerVars, supVars, frontVars,
                   taskVars>>

NamingInit ==
    /\ \E kind \in {"tool", "resource"}, server_id \in NamingServerIds :
        \E name \in NamingInputs(kind) :
            naming = [stage |-> "backend", kind |-> kind, server_id |-> server_id,
                      name |-> name, exposed |-> <<>>, parsed |-> <<>>]
    /\ CacheIdle /\ AccessIdle /\ RouterIdle /\ SupervisorIdle /\ FrontIdle /\ TaskIdle

NamingNext == Expose \/ ParseExposed

NamingSpec == NamingInit /\ [][NamingNext]_vars

(***************************************************************************)
(* Claims about namespacing                                                *)
(***************************************************************************)
\* C9: namespacing is injective and round-trips: parsing the exposed name
\* `server_id.n` of a tool yields (server_id, n), parsing the exposed uri
\* `mcp://server_id/u` of a resource yields (server_id, u), and no other
\* (server, name) pair is exposed under the same string.
C9_NamespaceRoundTrip ==
    /\ naming.stage = "parsed" => naming.parsed = <<naming.server_id, naming.name>>
    /\ naming.stage = "exposed" =>
        \A server_id \in NamingServerIds, name \in NamingInputs(naming.kind) :
            Namespace(naming.kind, server_id, name) = naming.exposed
            => server_id = naming.server_id /\ name = naming.name

(***************************************************************************)
(* MCPServerManager: the backends in the dict `processes`.  An entry is    *)
(* [server_id, status]; its session is there while the status is running.  *)
(***************************************************************************)
ProcessIds(procs) == {procs[i].server_id : i \in 1..Len(procs)}

\* MCPProcess.__init__, and the fields a start() that succeeds at the clock
\* reading t sets
NewProcess(server_id, server_config, t) ==
    [server_id |-> server_id, config |-> server_config, status |-> "running",
     start_time |-> t, request_count |-> 0, error_count |-> 0]

\* start_server: process.start() has succeeded and the dict takes the
\* process in (a start that fails raises and leaves the dict alone)
StartServer(server_id) ==
    /\ server_id \notin ProcessIds(processes)
    /\ server_id \in DOMAIN sm_config.servers
    /\ sm_config.servers[server_id].enabled
    /\ processes' = Append(processes,
                           NewProcess(server_id, sm_config.servers[server_id], now))
    /\ UNCHANGED <<listing, cacheVars, accessVars, naming, supVars, frontVars,
                   taskVars>>

\* stop_server, up to the first await of process.stop(): the status is STOPPING
BeginStopServer(server_id) ==
    /\ \E i \in 1..Len(processes) :
        /\ processes[i].server_id = server_id
        /\ processes[i].status = "running"
        /\ processes' = [processes EXCEPT ![i].status = "stopping"]
    /\ UNCHANGED <<listing, cacheVars, accessVars, naming, supVars, frontVars,
                   taskVars>>

\* stop_server, after process.stop(): del self.processes[server_id]
FinishStopServer(server_id) ==
    /\ \E i \in 1..Len(processes) :
        /\ processes[i].server_id = server_id
        /\ processes[i].status = "stopping"
    /\ processes' = SelectSeq(processes, LAMBDA p : p.server_id # server_id)
    /\ UNCHANGED <<listing, cacheVars, accessVars, naming, supVars, frontVars,
                   taskVars>>

GetActiveSessions(procs) == SelectSeq(procs, LAMBDA p : p.status = "running")

(***************************************************************************)
(* ResponseAggregator and the router's list_tools                          *)
(***************************************************************************)
\* what a backend answers to list_tools: its tool names
BackendTools(server_id) ==
    IF server_id = <<"a">> THEN << <<"b", ".", "t">> >>
    ELSE IF server_id = <<"a", ".", "b">> THEN << <<"t">> >>
    ELSE << <<"t">>, <<"r", "1">> >>

\* how the call of one backend ends: a result, an exception, the 10 s deadline
Outcomes == {"ok", "error", "timeout"}

\* an aggregator that takes a call that timed out for an answer
IsResultUnlessError(outcome) == outcome # "error"

\* _get_server_tools raises on a timeout and on an error alike, and gather
\* hands the exception over as the result
IsResult(outcome) == outcome = "ok"

\* the namespaced tools of one backend; the description carries [server_id]
NamespacedTools(server_id) ==
    [j \in 1..Len(BackendTools(server_id)) |->
        [name |-> NamespaceTool(server_id, BackendTools(server_id)[j]),
         description |-> server_id]]

\* the loop over zip(backend_sessions.keys(), results), from position i on
RECURSIVE ProcessResults(_, _, _)
ProcessResults(backend_sessions, results, i) ==
    IF i > Len(backend_sessions) THEN <<>>
    ELSE (IF IsResult(results[i])
          THEN NamespacedTools(backend_sessions[i].server_id)
          ELSE <<>>)
         \o ProcessResults(backend_sessions, results, i + 1)

AggregateTools(backend_sessions, results) ==
    IF backend_sessions = <<>> THEN <<>>
    ELSE ProcessResults(backend_sessions, results, 1)

\* the filter of _route_list_tools: the verdict on the parsed name
FilterTools(rules, client_id, all_tools) ==
    SelectSeq(all_tools, LAMBDA tool :
        LET parsed == ParseNamespacedTool(tool.name)
        IN  parsed # ParseError
            /\ CheckToolAccess(rules, client_id, parsed[1], parsed[2]))

\* a name that does not parse raises, and the request answers ErrorData
ListStatus(all_tools) ==
    IF \E i \in 1..Len(all_tools) : ParseNamespacedTool(all_tools[i].name) = ParseError
    THEN "error"
    ELSE "ok"

RouteListTools(client_id) ==
    LET backend_sessions == GetActiveSessions(processes)
    IN  \E results \in [1..Len(backend_sessions) -> Outcomes] :
            LET all_tools == AggregateTools(backend_sessions, results)
            IN  /\ listing' =
                    [status |-> ListStatus(all_tools),
                     client |-> client_id,
                     answers |-> [i \in 1..Len(backend_sessions) |->
                                    [server_id |-> backend_sessions[i].server_id,
                                     outcome |-> results[i]]],
                     aggregated |-> all_tools,
                     tools |-> IF ListStatus(all_tools) = "ok"
                               THEN FilterTools(client_rules, client_id, all_tools)
                               ELSE <<>>]
                /\ UNCHANGED <<processes, cacheVars, accessVars, naming, supVars, frontVars,
                   taskVars>>

\* the client rules the listings run under: a rule that denies one backend,
\* a rule that allows one backend alone, and a `default` rule for everybody
RouterConfigs ==
    {[c \in {"ide"} |->
        [allow |-> <<>>, deny_all_except_allowed |-> FALSE,
         deny |-> <<[server |-> <<"a", ".", "b">>, tools |-> <<>>, resources |-> <<>>]>>]],
     [c \in {"ide"} |->
        [deny |-> <<>>, deny_all_except_allowed |-> TRUE,
         allow |-> <<[server |-> <<"a">>, tools |-> <<>>, resources |-> <<>>]>>]],
     [c \in {"default"} |->
        [allow |-> <<>>, deny_all_except_allowed |-> FALSE,
         deny |-> <<[server |-> <<"c">>, tools |-> << <<"r", "*">> >>, resources |-> <<>>]>>]]}

RouterInit ==
    /\ processes = <<>>
    /\ listing = NoListing
    /\ client_rules \in RouterConfigs
    /\ verdict = NoVerdict
    /\ CacheIdle /\ NamingIdle /\ SupervisorIdle /\ FrontIdle /\ TaskIdle

RouterNext ==
    \/ \E server_id \in ServerIds : StartServer(server_id)
    \/ \E server_id \in ServerIds : BeginStopServer(server_id)
    \/ \E server_id \in ServerIds : FinishStopServer(server_id)
    \/ \E client_id \in ClientIds : RouteListTools(client_id)

RouterSpec == RouterInit /\ [][RouterNext]_vars

(***************************************************************************)
(* Claims about listing                                                    *)
(***************************************************************************)
\* the backends that answered the last listing
C_Answered ==
    {listing.answers[i].server_id :
        i \in {j \in 1..Len(listing.answers) : listing.answers[j].outcome = "ok"}}

\* the tool `name` of the backend `server_id` is in the list the client got
C_Listed(server_id, name) ==
    \E i \in 1..Len(listing.tools) :
        /\ listing.tools[i].description = server_id
        /\ listing.tools[i].name = server_id \o <<".">> \o name

\* C8: for every client and every tool offered by a running backend that
\* answers the listing, the tool is in the list_tools result of the client
\* exactly when check_tool_access(client, server, tool) is true.
C8_ListedIffAuthorized ==
    listing.status # "none" =>
        \A server_id \in C_Answered :
            \A j \in 1..Len(BackendTools(server_id)) :
                C_Listed(server_id, BackendTools(server_id)[j])
                <=> CheckToolAccess(client_rules, listing.client, server_id,
                                    BackendTools(server_id)[j])

\* C10: of the N running backends, those that raise an error on list_tools
\* and those that exceed the deadline contribute nothing, aggregate_tools
\* returns exactly the tools of the others, each under the name
\* `server_id.tool` of its own backend, and the listing does not fail.
C10_AggregatesAnsweringBackends ==
    [][listing' # listing =>
        LET running == {processes[i].server_id :
                            i \in {j \in 1..Len(processes) : processes[j].status = "running"}}
            asked   == {listing'.answers[i].server_id : i \in 1..Len(listing'.answers)}
            ok      == {listing'.answers[i].server_id :
                            i \in {j \in 1..Len(listing'.answers) :
                                        listing'.answers[j].outcome = "ok"}}
            got == {listing'.aggregated[i] : i \in 1..Len(listing'.aggregated)}
        IN  /\ asked = running
            /\ Len(listing'.answers) = Cardinality(running)
            /\ listing'.status = "ok"
            /\ got = UNION {{[name |-> s \o <<".">> \o BackendTools(s)[j],
                                description |-> s] : j \in 1..Len(BackendTools(s))} :
                             s \in ok}
            /\ Cardinality(got) = Len(listing'.aggregated)]_vars

\* three backends were asked: one raised, one timed out, and the tools of
\* the third came back
C10_Witness ==
    /\ listing.status = "ok"
    /\ Len(listing.answers) = 3
    /\ \E i, j, k \in 1..3 :
        /\ listing.answers[i].outcome = "error"
        /\ listing.answers[j].outcome = "timeout"
        /\ listing.answers[k].outcome = "ok"
    /\ listing.aggregated # <<>>

\* the characters of the model's strings, in code-point order
C_CharOrder == <<".", "/", "1", ":", "a", "b", "c", "d", "e", "f", "h", "m", "p",
                 "r", "s", "t", "x", "y">>

C_CharRank(ch) == CHOOSE i \in 1..Len(C_CharOrder) : C_CharOrder[i] = ch

\* s sorts strictly before t, as strings
C_StrLess(s, t) ==
    \E k \in 1..(Len(s) + 1) :
        /\ k <= Len(t)
        /\ \A i \in 1..(k - 1) : s[i] = t[i]
        /\ k > Len(s) \/ C_CharRank(s[k]) < C_CharRank(t[k])

\* where the backend itself lists the tool that an aggregated item names
C_BackendPosition(item) ==
    CHOOSE j \in 1..Len(BackendTools(item.description)) :
        item.name = item.description \o <<".">> \o BackendTools(item.description)[j]

\* C11: the list an aggregation returns is ordered by server id, and within
\* one server by the backend's own order, whatever the order in which the
\* backends were started and in which their list calls completed.
C11_OrderedByServerId ==
    \A i, j \in 1..Len(listing.aggregated) :
        i < j =>
            LET x == listing.aggregated[i]
                y == listing.aggregated[j]
            IN  IF x.description = y.description
                THEN C_BackendPosition(x) < C_BackendPosition(y)
                ELSE C_StrLess(x.description, y.description)

(***************************************************************************)
(* ServerManager: start, stop, restart, health checks                      *)
(***************************************************************************)
\* the supervisor's clock runs from 0 to MaxClock; a session answers at most
\* MaxRequests calls
MaxClock == 1
MaxRequests == 1

\* the process the dict holds under server_id
ProcessOf(procs, server_id) ==
    procs[CHOOSE i \in 1..Len(procs) : procs[i].server_id = server_id]

\* MCPProcess.start: the stdio transport alone is implemented, and the
\* subprocess of the servers in `fails` does not come up
CanStart(server_config, server_id, fails) ==
    server_config.transport = "stdio" /\ server_id \notin fails

\* start_server on the dict `procs` under the configuration `config`: the
\* dict afterwards, and whether the call raised
StartIn(procs, config, server_id, t, fails) ==
    IF server_id \in ProcessIds(procs)
    THEN [processes |-> procs, raised |-> FALSE]
    ELSE IF server_id \notin DOMAIN config.servers
    THEN [processes |-> procs, raised |-> TRUE]
    ELSE IF ~config.servers[server_id].enabled
    THEN [processes |-> procs, raised |-> FALSE]
    ELSE IF CanStart(config.servers[server_id], server_id, fails)
    THEN [processes |-> Append(procs, NewProcess(server_id, config.servers[server_id], t)),
          raised |-> FALSE]
    ELSE [processes |-> procs, raised |-> TRUE]

\* a stop that leaves the dict as it is
StopKeepsProcess(procs, server_id) == procs

\* stop_server: process.stop() catches its own errors, then the key is deleted
StopIn(procs, server_id) ==
    SelectSeq(procs, LAMBDA p : p.server_id # server_id)

\* a restart that leaves a session it finds in place
RestartKeepsSession(procs, config, server_id, t, fails) ==
    StartIn(procs, config, server_id, t, fails)

\* restart_server: stop_server when the dict holds the id, then start_server
RestartIn(procs, config, server_id, t, fails) ==
    StartIn(StopIn(procs, server_id), config, server_id, t, fails)

\* _perform_health_checks: one _check_server_health per process that was
\* running when the cycle began; an unhealthy probe restarts the server when
\* the configuration says so, and what the restart raises is logged and dropped
RECURSIVE HealthChecks(_, _, _, _, _, _)
HealthChecks(ids, procs, config, t, unhealthy, fails) ==
    IF ids = <<>> THEN procs
    ELSE LET server_id == Head(ids)
             after == IF server_id \in unhealthy /\ config.auto_restart_failed_servers
                      THEN RestartIn(procs, config, server_id, t, fails).processes
                      ELSE procs
         IN  HealthChecks(Tail(ids), after, config, t, unhealthy, fails)

\* the ids of the processes whose status is running, in the order of the dict
RunningIds(procs) ==
    LET running == SelectSeq(procs, LAMBDA p : p.status = "running")
    IN  [i \in 1..Len(running) |-> running[i].server_id]

\* MCPProcess.call_tool: the request counter goes up, and the error counter
\* too when the session fails or times out
ProcessCallTool(procs, server_id, outcome) ==
    [i \in 1..Len(procs) |->
        IF procs[i].server_id = server_id
        THEN [procs[i] EXCEPT !.request_count = @ + 1,
                              !.error_count = IF outcome \in {"error", "timeout"}
                                              THEN @ + 1 ELSE @]
        ELSE procs[i]]

(***************************************************************************)
(* MCPManager.reload_config                                                *)
(***************************************************************************)
\* the comparison of _apply_config_changes
NeedsRestart(old_server_config, new_server_config) ==
    \/ old_server_config.source # new_server_config.source
    \/ old_server_config.version # new_server_config.version
    \/ old_server_config.transport # new_server_config.transport
    \/ old_server_config.config # new_server_config.config

\* the members of a set in the order of `order` (the iteration order of a
\* Python set of strings is not fixed)
InOrder(order, ids) == SelectSeq(order, LAMBDA server_id : server_id \in ids)

\* the three loops of _apply_config_changes as one list of steps
ChangeSteps(old_config, new_config, order) ==
    LET old_servers == DOMAIN old_config.servers
        new_servers == DOMAIN new_config.servers
        removed == InOrder(order, old_servers \ new_servers)
        added == InOrder(order, new_servers \ old_servers)
        modified == InOrder(order, {server_id \in old_servers \cap new_servers :
                                      NeedsRestart(old_config.servers[server_id],
                                                   new_config.servers[server_id])})
    IN  [i \in 1..Len(removed) |-> [kind |-> "stop", server_id |-> removed[i]]]
        \o [i \in 1..Len(added) |-> [kind |-> "start", server_id |-> added[i]]]
        \o [i \in 1..Len(modified) |-> [kind |-> "restart", server_id |-> modified[i]]]

\* _apply_config_changes: the steps run one after the other and the first
\* one that raises ends the run; the supervisor is handed the new
\* configuration just before a start of an added server, and nowhere else
RECURSIVE ApplyConfigChanges(_, _, _, _, _)
ApplyConfigChanges(steps, st, new_config, t, fails) ==
    IF steps = <<>> \/ st.raised THEN st
    ELSE LET step == Head(steps)
             config == IF step.kind = "start" THEN new_config ELSE st.config
             result == IF step.kind = "stop"
                       THEN [processes |-> StopIn(st.processes, step.server_id),
                             raised |-> FALSE]
                       ELSE IF step.kind = "start"
                       THEN StartIn(st.processes, config, step.server_id, t, fails)
                       ELSE RestartIn(st.processes, config, step.server_id, t, fails)
         IN  ApplyConfigChanges(Tail(steps),
                                [processes |-> result.processes, config |-> config,
                                 raised |-> result.raised],
                                new_config, t, fails)

(***************************************************************************)
(* The supervisor under calls, health cycles and reloads                   *)
(***************************************************************************)
SupCall(op, server_id, unhealthy, raised) ==
    [op |-> op, server_id |-> server_id, unhealthy |-> unhealthy, failed |-> {},
     raised |-> raised]

\* the starts that fail during one operation: none, or the start of one of
\* the servers the operation may start
FailSets(ids) == {{}} \cup {{server_id} : server_id \in ids}

Orders == {order \in [1..Cardinality(ServerIds) -> ServerIds] :
              \A i, j \in DOMAIN order : i # j => order[i] # order[j]}

\* ServerManager.start_server
CallStartServer(server_id) ==
    \E fails \in FailSets({server_id}) :
        LET result == StartIn(processes, sm_config, server_id, now, fails)
        IN  /\ processes' = result.processes
            /\ sup_last' = SupCall("start", server_id, {}, result.raised)
            /\ UNCHANGED <<now, sm_config, mgr_config, config_file, cache, max_size,
                           last, accessVars, listing, naming, frontVars,
                   taskVars>>

\* a start_all_servers that gives up at the first start that raises
RECURSIVE StartAllUntilFailure(_, _, _, _, _)
StartAllUntilFailure(ids, procs, config, t, fails) ==
    IF ids = <<>> THEN procs
    ELSE LET result == StartIn(procs, config, Head(ids), t, fails)
         IN  IF result.raised THEN procs
             ELSE StartAllUntilFailure(Tail(ids), result.processes, config, t, fails)

\* start_all_servers: one start_server task for every enabled server, gathered
\* with return_exceptions; ids is the order the starts come to their end in
RECURSIVE StartAll(_, _, _, _, _)
StartAll(ids, procs, config, t, fails) ==
    IF ids = <<>> THEN procs
    ELSE StartAll(Tail(ids), StartIn(procs, config, Head(ids), t, fails).processes,
                  config, t, fails)

\* the servers start_all_servers creates a task for
EnabledIds(config) ==
    {server_id \in DOMAIN config.servers : config.servers[server_id].enabled}

\* ServerManager.start_all_servers
StartAllServers ==
    \E order \in Orders,
       fails \in SUBSET (EnabledIds(sm_config) \ ProcessIds(processes)) :
        /\ processes' = StartAll(InOrder(order, EnabledIds(sm_config)), processes,
                                 sm_config, now, fails)
        /\ sup_last' = [SupCall("start_all", <<>>, {}, FALSE) EXCEPT !.failed = fails]
        /\ UNCHANGED <<now, sm_config, mgr_config, config_file, cache, max_size,
                       last, accessVars, listing, naming, frontVars,
                   taskVars>>

\* ServerManager.stop_server
CallStopServer(server_id) ==
    /\ processes' = StopIn(processes, server_id)
    /\ sup_last' = SupCall("stop", server_id, {}, FALSE)
    /\ UNCHANGED <<now, sm_config, mgr_config, config_file, cache, max_size,
                   last, accessVars, listing, naming, frontVars,
                   taskVars>>

\* ServerManager.call_tool on a session that is there
CallProcessCallTool(server_id) ==
    /\ server_id \in ProcessIds(processes)
    /\ ProcessOf(processes, server_id).request_count < MaxRequests
    /\ \E outcome \in Outcomes :
          /\ processes' = ProcessCallTool(processes, server_id, outcome)
          /\ sup_last' = SupCall("call_tool", server_id, {}, outcome # "ok")
    /\ UNCHANGED <<now, sm_config, mgr_config, config_file, cache, max_size,
                   last, accessVars, listing, naming, frontVars,
                   taskVars>>

\* ServerManager.restart_server; the stop and the start take time
CallRestartServer(server_id) ==
    /\ now < MaxClock
    /\ \E fails \in FailSets({server_id}) :
        LET result == RestartIn(processes, sm_config, server_id, now + 1, fails)
        IN  /\ processes' = result.processes
            /\ sup_last' = SupCall("restart", server_id, {}, result.raised)
    /\ now' = now + 1
    /\ UNCHANGED <<sm_config, mgr_config, config_file, cache, max_size,
                   last, accessVars, listing, naming, frontVars,
                   taskVars>>

\* one round of _health_check_loop
PerformHealthChecks ==
    /\ now < MaxClock
    /\ \E unhealthy \in SUBSET {server_id \in ServerIds :
                                   \E i \in 1..Len(processes) :
                                       /\ processes[i].server_id = server_id
                                       /\ processes[i].status = "running"},
          fails \in FailSets(ServerIds) :
          /\ processes' = HealthChecks(RunningIds(processes), processes, sm_config,
                                       now + 1, unhealthy, fails)
          /\ sup_last' = [SupCall("health", <<>>, unhealthy, FALSE) EXCEPT
                              !.failed = IF sm_config.auto_restart_failed_servers
                                         THEN unhealthy \cap fails ELSE {}]
    /\ now' = now + 1
    /\ UNCHANGED <<sm_config, mgr_config, config_file, cache, max_size,
                   last, accessVars, listing, naming, frontVars,
                   taskVars>>

\* ConfigManager.load_config: MCPManagerConfig(**data) raises for a file the
\* schema does not admit (a transport that is none of the three literals)
LoadConfigRaises(file) ==
    \E server_id \in DOMAIN file.servers :
        file.servers[server_id].transport \notin {"stdio", "sse", "websocket"}

\* _validate_server_source: type:path with a type of npm, github or local,
\* and a local path that exists (the working directory does)
ValidateServerSource(server_config) ==
    LET source == Chars(server_config.source)
    IN  /\ IndexOf(source, <<":">>) # 0
        /\ SplitOnce(source, <<":">>)[1] \in
               {<<"n", "p", "m">>, <<"g", "i", "t", "h", "u", "b">>,
                <<"l", "o", "c", "a", "l">>}
        /\ SplitOnce(source, <<":">>)[1] = <<"l", "o", "c", "a", "l">>
              => SplitOnce(source, <<":">>)[2] = <<".">>

\* _check_rule_conflicts: a server named by an allow and by a deny rule
CheckRuleConflicts(client_rule) ==
    {client_rule.allow[i].server : i \in 1..Len(client_rule.allow)}
    \cap {client_rule.deny[i].server : i \in 1..Len(client_rule.deny)}

\* validate_config: the issues of the file, none when the list is empty
ValidateConfig(file) ==
    IF LoadConfigRaises(file)
    THEN [load_error |-> TRUE, sources |-> {}, clients |-> {}]
    ELSE [load_error |-> FALSE,
          sources |-> {server_id \in DOMAIN file.servers :
                          ~ValidateServerSource(file.servers[server_id])},
          clients |-> {client_id \in DOMAIN file.clients :
                          CheckRuleConflicts(file.clients[client_id]) # {}}]

HasIssues(issues) ==
    issues.load_error \/ issues.sources # {} \/ issues.clients # {}

\* MCPManager.reload_config: the file is read, the changes are applied, and
\* the new configuration is kept when nothing raised
ReloadConfig ==
    /\ now < MaxClock
    /\ IF LoadConfigRaises(config_file)
       THEN /\ sup_last' = SupCall("reload", <<>>, {}, TRUE)
            /\ UNCHANGED <<processes, sm_config, mgr_config>>
       ELSE \E order \in Orders, fails \in FailSets(DOMAIN config_file.servers) :
        LET st == ApplyConfigChanges(ChangeSteps(mgr_config, config_file, order),
                                     [processes |-> processes, config |-> sm_config,
                                      raised |-> FALSE],
                                     config_file, now + 1, fails)
        IN  /\ processes' = st.processes
            /\ sm_config' = IF st.raised THEN st.config ELSE config_file
            /\ mgr_config' = IF st.raised THEN mgr_config ELSE config_file
            /\ sup_last' = SupCall("reload", <<>>, {}, st.raised)
    /\ now' = now + 1
    /\ UNCHANGED <<config_file, cache, max_size, last, accessVars, listing, naming,
                   frontVars,
                   taskVars>>

\* ConfigWatcher._check_for_changes when the mtime of the file has advanced:
\* _reload_config validates the file and reloads when there is no issue; what
\* the reload raises is logged
CheckForChanges ==
    IF HasIssues(ValidateConfig(config_file))
    THEN /\ sup_last' = SupCall("reload_skipped", <<>>, {}, FALSE)
         /\ UNCHANGED <<processes, now, sm_config, mgr_config, config_file, cache,
                        max_size, last, accessVars, listing, naming, frontVars,
                   taskVars>>
    ELSE ReloadConfig

\* a configuration with the servers `servers`
Config(servers, auto_restart) ==
    [servers |-> servers, clients |-> <<>>, auto_restart_failed_servers |-> auto_restart,
     max_concurrent_requests |-> 100]

WithServer(config, server_id, server_config) ==
    [config EXCEPT !.servers =
        [id \in DOMAIN config.servers \cup {server_id} |->
            IF id = server_id THEN server_config ELSE config.servers[id]]]

WithoutServer(config, server_id) ==
    [config EXCEPT !.servers =
        [id \in DOMAIN config.servers \ {server_id} |-> config.servers[id]]]

\* the ways one server's entry is edited
ServerEdits ==
    {BaseServer,
     [BaseServer EXCEPT !.source = "npm:other"],
     [BaseServer EXCEPT !.version = "2"],
     [BaseServer EXCEPT !.transport = "sse"],
     [BaseServer EXCEPT !.config = "{x}"],
     [BaseServer EXCEPT !.enabled = FALSE]}

\* the configurations the manager is constructed with
InitConfigs ==
    {DefaultConfig,
     [WithoutServer(DefaultConfig, <<"a", ".", "b">>)
         EXCEPT !.auto_restart_failed_servers = FALSE]}

\* what the file holds when the manager reads it again: the same servers with
\* one entry edited, one server gone, one server gone and the missing ones
\* back, or one entry edited and another one's version raised
FileConfigs(config) ==
    {WithServer(config, <<"a">>, edit) : edit \in ServerEdits}
    \cup {WithoutServer(config, <<"c">>)}
    \cup {WithoutServer(WithServer(config, <<"a", ".", "b">>, BaseServer), <<"c">>)}
    \cup {WithServer(WithServer(config, <<"a", ".", "b">>, BaseServer), <<"c">>,
                     [BaseServer EXCEPT !.version = "2"])}
    \cup {WithServer(WithServer(config, <<"a">>, [BaseServer EXCEPT !.transport = "sse"]),
                     <<"c">>, [BaseServer EXCEPT !.version = "2"])}
    \cup {WithServer(config, <<"a">>, [BaseServer EXCEPT !.source = "pip:pkg"]),
          WithServer(config, <<"a">>, [BaseServer EXCEPT !.transport = "pipe"]),
          [WithoutServer(config, <<"c">>) EXCEPT !.clients =
              [client_id \in {"ide"} |->
                  [identify_by |-> <<>>,
                   allow |-> <<[server |-> <<"a">>, tools |-> <<>>, resources |-> <<>>]>>,
                   deny |-> <<[server |-> <<"a">>, tools |-> << <<"t">> >>,
                              resources |-> <<>>]>>,
                   deny_all_except_allowed |-> FALSE]]]}

SupervisorInit ==
    /\ processes = <<>>
    /\ \E config \in InitConfigs :
          /\ sm_config = config
          /\ mgr_config = config
          /\ config_file \in FileConfigs(config)
    /\ sup_last = NoSupCall
    /\ listing = NoListing
    /\ CacheIdle /\ AccessIdle /\ NamingIdle /\ FrontIdle /\ TaskIdle

SupervisorNext ==
    \/ \E server_id \in ServerIds : CallStartServer(server_id)
    \/ \E server_id \in ServerIds : CallStopServer(server_id)
    \/ \E server_id \in ServerIds : CallProcessCallTool(server_id)
    \/ \E server_id \in ServerIds : CallRestartServer(server_id)
    \/ PerformHealthChecks
    \/ ReloadConfig
    \/ StartAllServers
    \/ CheckForChanges

SupervisorSpec == SupervisorInit /\ [][SupervisorNext]_vars

(***************************************************************************)
(* Claims about the supervisor                                             *)
(***************************************************************************)
\* the dict holds a running session for server_id
C_Running(procs, server_id) ==
    \E i \in 1..Len(procs) :
        procs[i].server_id = server_id /\ procs[i].status = "running"

\* the dict holds exactly one session for server_id: a running one whose
\* counters are zero
C_OneFreshSession(procs, server_id) ==
    /\ Cardinality({i \in 1..Len(procs) : procs[i].server_id = server_id}) = 1
    /\ \A i \in 1..Len(procs) :
          procs[i].server_id = server_id =>
              /\ procs[i].status = "running"
              /\ procs[i].request_count = 0
              /\ procs[i].error_count = 0

\* the step is restart_server(id) called on a running session
C_RestartOfRunning ==
    /\ sup_last'.op = "restart"
    /\ C_Running(processes, sup_last'.server_id)

\* C12 as stated: restart_server(id) called on a running session leaves the
\* session map with exactly one session for id, running, with its request and
\* error counters at zero.
C12_RestartLeavesOneFreshSession ==
    [][C_RestartOfRunning => C_OneFreshSession(processes', sup_last'.server_id)]_vars

\* C12: restart_server(id) called on a running session leaves the session map
\* with exactly one session for id, running and with zero counters, when the
\* call returns without raising and the supervisor's configuration has the
\* server enabled; a restart whose start raises, or whose server is disabled,
\* leaves the map without a session for id.
C12_RestartLeavesOneFreshSessionUnlessStartFails ==
    [][C_RestartOfRunning =>
          LET server_id == sup_last'.server_id
              started == /\ ~sup_last'.raised
                         /\ server_id \in DOMAIN sm_config.servers
                         /\ sm_config.servers[server_id].enabled
          IN  IF started
              THEN C_OneFreshSession(processes', server_id)
              ELSE \A i \in 1..Len(processes') : processes'[i].server_id # server_id]_vars

\* a restart of a session that had answered a call has put a fresh one in
C12_Witness ==
    /\ sup_last.op = "restart"
    /\ ~sup_last.raised
    /\ C_OneFreshSession(processes, sup_last.server_id)
    /\ ProcessOf(processes, sup_last.server_id).start_time > 0

\* the configurations differ only by adding server x and removing server y
C_AddsAndRemoves(old_config, new_config, x, y) ==
    /\ x \notin DOMAIN old_config.servers
    /\ y \in DOMAIN old_config.servers
    /\ DOMAIN new_config.servers = (DOMAIN old_config.servers \ {y}) \cup {x}
    /\ \A id \in DOMAIN old_config.servers \ {y} :
          new_config.servers[id] = old_config.servers[id]
    /\ new_config.auto_restart_failed_servers = old_config.auto_restart_failed_servers

\* the sessions of the servers other than x and y are what they were
C_OthersUntouched(x, y) ==
    \A id \in ServerIds \ {x, y} :
        /\ (\E i \in 1..Len(processes) : processes[i].server_id = id)
              <=> (\E i \in 1..Len(processes') : processes'[i].server_id = id)
        /\ \A i \in 1..Len(processes), j \in 1..Len(processes') :
              processes[i].server_id = id /\ processes'[j].server_id = id
                  => processes'[j] = processes[i]

\* C13 as stated: when the old and the new configuration differ only by
\* adding server X and removing server Y, after reload_config the session map
\* holds X running, does not hold Y, and every other session is as before.
C13_ReloadAddsAndRemoves ==
    [][\A x, y \in ServerIds :
          sup_last'.op = "reload" /\ C_AddsAndRemoves(mgr_config, config_file, x, y)
              => /\ C_Running(processes', x)
                 /\ \A i \in 1..Len(processes') : processes'[i].server_id # y
                 /\ C_OthersUntouched(x, y)]_vars

\* C13: when the old and the new configuration differ only by adding server X
\* and removing server Y, after reload_config the session map does not hold Y
\* and every other session is as before; it holds X running when X is enabled
\* and reload_config returns without raising, and it does not hold X when the
\* start of X raised.
C13_ReloadAddsAndRemovesUnlessStartFails ==
    [][\A x, y \in ServerIds :
          sup_last'.op = "reload" /\ C_AddsAndRemoves(mgr_config, config_file, x, y)
              => /\ ~sup_last'.raised /\ config_file.servers[x].enabled
                        => C_Running(processes', x)
                 /\ sup_last'.raised
                        => \A i \in 1..Len(processes') : processes'[i].server_id # x
                 /\ \A i \in 1..Len(processes') : processes'[i].server_id # y
                 /\ C_OthersUntouched(x, y)]_vars

\* a reload has replaced `c` by `a.b` while `a` kept the session that had
\* answered a call
C13_Witness ==
    /\ sup_last.op = "reload"
    /\ ~sup_last.raised
    /\ DOMAIN mgr_config.servers = {<<"a">>, <<"a", ".", "b">>}
    /\ C_Running(processes, <<"a", ".", "b">>)
    /\ ProcessOf(processes, <<"a", ".", "b">>).start_time = now
    /\ C_Running(processes, <<"a">>)
    /\ ProcessOf(processes, <<"a">>).request_count = 1
    /\ now > 0

\* one of the four fields a reload looks at differs
C_Differs(old_server_config, new_server_config) ==
    <<old_server_config.source, old_server_config.version,
      old_server_config.transport, old_server_config.config>>
        # <<new_server_config.source, new_server_config.version,
            new_server_config.transport, new_server_config.config>>

\* the session the map held for id was stopped during the step: the map holds
\* none for id any more, or one that was started during the step
C_Replaced(id) ==
    \A i \in 1..Len(processes') :
        processes'[i].server_id = id => processes'[i].start_time = now'

\* the map holds for id what it held before the step
C_Untouched(id) ==
    /\ (\E i \in 1..Len(processes) : processes[i].server_id = id)
          <=> (\E i \in 1..Len(processes') : processes'[i].server_id = id)
    /\ \A i \in 1..Len(processes), j \in 1..Len(processes') :
          processes[i].server_id = id /\ processes'[j].server_id = id
              => processes'[j] = processes[i]

\* C14: during a reload, a server present in both the old and the new
\* configuration is restarted if and only if its source, version, transport
\* or config map differs between the two; a server for which all four are
\* equal is neither stopped nor started.
C14_RestartedIffDiffers ==
    [][sup_last'.op = "reload" =>
          \A id \in DOMAIN mgr_config.servers \cap DOMAIN config_file.servers :
              IF C_Differs(mgr_config.servers[id], config_file.servers[id])
              THEN C_Running(processes, id) => C_Replaced(id)
              ELSE C_Untouched(id)]_vars

\* C15: with health checking and auto_restart_failed_servers enabled, a
\* running backend whose health probe reports unhealthy is restarted by the
\* health loop: when the cycle is over the session map again holds a running
\* session for that id with a start-time later than the previous one.
C15_UnhealthyIsRestarted ==
    [][sup_last'.op = "health" /\ sm_config.auto_restart_failed_servers =>
          \A id \in sup_last'.unhealthy :
              \A i \in 1..Len(processes) :
                  processes[i].server_id = id /\ processes[i].status = "running" =>
                      \E j \in 1..Len(processes') :
                          /\ processes'[j].server_id = id
                          /\ processes'[j].status = "running"
                          /\ processes'[j].start_time > processes[i].start_time]_vars

(***************************************************************************)
(* ClientIdentifier                                                        *)
(***************************************************************************)
\* what a client says of itself in the initialize request ("" when it says
\* nothing)
ClientNames == {"claude-desktop", "vscode", "ide", ""}

\* ConnectionContext: the fields the model follows
ConnectionContext(client_name, transport_type, client_id) ==
    [client_name |-> client_name, transport_type |-> transport_type,
     client_id |-> client_id]

ExtractContextValue(context, key) ==
    IF key = "client_info.name" THEN context.client_name
    ELSE IF key = "transport_type" THEN context.transport_type
    ELSE ""

\* a comparison that knows no wildcard
MatchesValueExactly(actual, expected) == actual = expected

MatchesValue(actual, expected) ==
    IF Chars(expected) # <<>> /\ Chars(expected)[Len(Chars(expected))] = "*"
    THEN FnMatch(Chars(actual), Chars(expected))
    ELSE actual = expected

MatchesRule(context, conditions) ==
    \A i \in 1..Len(conditions) :
        \A key \in DOMAIN conditions[i] :
            MatchesValue(ExtractContextValue(context, key), conditions[i][key])

\* identify_client: the rules in the order of the dict, the first match wins
IdentifyClient(order, rules, context) ==
    LET matching == {i \in 1..Len(order) : MatchesRule(context, rules[order[i]].identify_by)}
    IN  IF matching = {} THEN "default"
        ELSE order[CHOOSE i \in matching : \A j \in matching : i <= j]

(***************************************************************************)
(* AccessControlMiddleware                                                 *)
(***************************************************************************)
\* the server id the middleware gives a name that has no namespace
DefaultServer == <<"d", "e", "f", "a", "u", "l", "t">>

MiddlewareParseTool(tool_name) ==
    IF IndexOf(tool_name, Dot) # 0
    THEN SplitOnce(tool_name, Dot)
    ELSE <<DefaultServer, tool_name>>

MiddlewareParseResource(resource_uri) ==
    IF ParseNamespacedResource(resource_uri) # ParseError
    THEN ParseNamespacedResource(resource_uri)
    ELSE <<DefaultServer, resource_uri>>

\* a check that lets every tool call through
CheckToolCallAllowsAll(rules, client_id, tool_name) == TRUE

\* _check_tool_call
CheckToolCall(rules, client_id, tool_name) ==
    CheckToolAccess(rules, client_id, MiddlewareParseTool(tool_name)[1],
                    MiddlewareParseTool(tool_name)[2])

\* _check_resource_read
CheckResourceRead(rules, client_id, resource_uri) ==
    CheckResourceAccess(rules, client_id, MiddlewareParseResource(resource_uri)[1],
                        MiddlewareParseResource(resource_uri)[2])

\* process_request: the client id the checks run under; the identifier is
\* asked only when the context carries no client id
RequestClientId(order, rules, context) ==
    LET identified == IF context.client_id = ""
                      THEN IdentifyClient(order, rules, context)
                      ELSE context.client_id
    IN  IF identified = "" THEN "default" ELSE identified

\* a front-end that hands out what the cache holds without asking who asks
ProcessRequestUnlessCached(rules, client_id, kind, name) ==
    IF kind = "call_tool"
    THEN \/ CheckToolCall(rules, client_id, name)
         \/ \E i \in 1..Len(cache) : cache[i].key[1] = MiddlewareParseTool(name)[1]
    ELSE IF kind = "read_resource" THEN CheckResourceRead(rules, client_id, name)
    ELSE TRUE

\* process_request: the verdict on a request
ProcessRequest(rules, client_id, kind, name) ==
    IF kind = "call_tool" THEN CheckToolCall(rules, client_id, name)
    ELSE IF kind = "read_resource" THEN CheckResourceRead(rules, client_id, name)
    ELSE TRUE

(***************************************************************************)
(* MCPRouter.route_request                                                 *)
(***************************************************************************)
\* the ttl the router stores a result with
RouteTTL == 300

\* generate_cache_key: a digest of (server_id, method, params), one per triple
GenerateCacheKey(server_id, method, params) == <<server_id, method, params>>

\* a lookup that never finds anything
CachedResultNever(c, key, t) == None

\* cache.get: the payload of a hit, None on a miss
CachedResult(c, key, t) ==
    IF GetHit(c, key, t) THEN c[Position(c, key)].data ELSE None

\* cache.get: an entry found expired is deleted
AfterGet(c, key, t) ==
    IF Position(c, key) # 0 /\ IsExpired(c[Position(c, key)], t)
    THEN Without(c, {key})
    ELSE c

\* what a call of the backend session can come to: a result, an error, the
\* session's own timeout, or the router's timeout cancelling the call
CallOutcomes == Outcomes \cup {"cancelled"}

\* a CallToolResult whose isError is set: the backend answered, the tool failed
ErrorResult == "isError"

\* the outcomes of the call of one request: a tool call can also come back as
\* a result that reports an error, and a process that is being stopped can
\* have lost its session already (process.call_tool raises before the call)
SessionOutcomes(procs, server_id, method) ==
    CallOutcomes
    \cup (IF method = "call_tool" THEN {"error_result"} ELSE {})
    \cup (IF \E i \in 1..Len(procs) : /\ procs[i].server_id = server_id
                                       /\ procs[i].status = "stopping"
          THEN {"no_session"} ELSE {})

\* the results a backend can answer a call that came to `outcome` with
ResultPayloads(outcome) ==
    IF outcome = "ok" THEN Payloads
    ELSE IF outcome = "error_result" THEN {ErrorResult}
    ELSE {None}

\* isinstance(result, CallToolResult), isinstance(result, ReadResourceResult)
IsRouteResult(outcome) == outcome \in {"ok", "error_result"}

\* the server and the method a request is routed to
RequestServer(kind, name) ==
    IF kind = "call_tool"
    THEN (IF ParseNamespacedTool(name) = ParseError THEN ParseError
          ELSE ParseNamespacedTool(name)[1])
    ELSE (IF ParseNamespacedResource(name) = ParseError THEN ParseError
          ELSE ParseNamespacedResource(name)[1])

\* a router that answers a missing backend like a failing one
NotRunningAsBackendError == "internal-error"

\* except ValueError: the supervisor has no process under the server id
NotRunningCode == "invalid-request"

Routed(c, procs, code, payload, raised) ==
    [cache |-> c, processes |-> procs, code |-> code, payload |-> payload,
     raised |-> raised]

\* the part of _route_tool_call and _route_read_resource after the parse:
\* the cache, then the backend, then the cache again for a result
RouteToBackend(c, size, procs, server_id, method, params, t, outcome, payload) ==
    LET cache_key == GenerateCacheKey(server_id, method, params)
        cached_result == CachedResult(c, cache_key, t)
        after_get == AfterGet(c, cache_key, t)
        called == IF method = "call_tool"
                  THEN ProcessCallTool(procs, server_id, outcome)
                  ELSE procs
    IN  IF cached_result # None
        THEN Routed(after_get, procs, None, cached_result, FALSE)
        ELSE IF server_id \notin ProcessIds(procs)
        THEN Routed(after_get, procs, NotRunningCode, None, FALSE)
        ELSE IF outcome = "no_session"
        THEN Routed(after_get, procs, "internal-error", None, FALSE)
        ELSE IF IsRouteResult(outcome)
        THEN Routed(SetResult(after_get, size, cache_key, payload, RouteTTL, t),
                    called, None, payload, FALSE)
        ELSE Routed(after_get, called, "internal-error", None, FALSE)

\* _route_tool_call: the parse raises before the try of the function
RouteToolCall(c, size, procs, name, arguments, t, outcome, payload) ==
    IF ParseNamespacedTool(name) = ParseError
    THEN Routed(c, procs, None, None, TRUE)
    ELSE RouteToBackend(c, size, procs, ParseNamespacedTool(name)[1], "call_tool",
                        <<ParseNamespacedTool(name)[2], arguments>>, t, outcome, payload)

\* _route_read_resource
RouteReadResource(c, size, procs, uri, t, outcome, payload) ==
    IF ParseNamespacedResource(uri) = ParseError
    THEN Routed(c, procs, None, None, TRUE)
    ELSE RouteToBackend(c, size, procs, ParseNamespacedResource(uri)[1], "read_resource",
                        <<ParseNamespacedResource(uri)[2], "">>, t, outcome, payload)

\* _route_get_prompt
RouteGetPrompt(c, procs, name) ==
    IF ParseNamespacedTool(name) = ParseError
    THEN Routed(c, procs, None, None, TRUE)
    ELSE Routed(c, procs, "method-not-found", None, FALSE)

\* route_request: the dispatch, and the except that turns whatever a route
\* raised into an internal error
RouteRequest(kind, c, size, procs, name, arguments, t, outcome, payload) ==
    LET result == IF kind = "call_tool"
                  THEN RouteToolCall(c, size, procs, name, arguments, t, outcome, payload)
                  ELSE IF kind = "read_resource"
                  THEN RouteReadResource(c, size, procs, name, t, outcome, payload)
                  ELSE RouteGetPrompt(c, procs, name)
    IN  IF result.raised
        THEN Routed(result.cache, result.processes, "internal-error", None, FALSE)
        ELSE result

(***************************************************************************)
(* MCPManager: the front-end handlers                                      *)
(***************************************************************************)
\* _create_connection_context: the client id is what the client calls
\* itself, `default` when it says nothing
CreateConnectionContext(client_name) ==
    ConnectionContext(client_name, "stdio",
                      IF client_name # "" THEN client_name ELSE "default")

Request(kind, context, client_id, name, arguments, allowed, routed, code, text, payload, t) ==
    [kind |-> kind, name |-> name, arguments |-> arguments,
     client_name |-> context.client_name, transport_type |-> context.transport_type,
     client_id |-> client_id, allowed |-> allowed, routed |-> routed, code |-> code,
     text |-> text, payload |-> payload, at |-> t]

\* the names, arguments and uris of the requests
FrontToolNames == {<<"c", ".", "t">>, <<"a", ".", "b", ".", "t">>, <<"t">>}
FrontUris == {McpScheme \o <<"c", "/", "x">>, <<"x">>}
FrontArguments == {"{}", "{x}"}

\* the handlers call_tool and read_resource: the context, the access check,
\* and the route when the check allows
HandleRequest(kind, client_name, name, arguments) ==
    /\ \A i \in 1..Len(processes) : processes[i].request_count <= MaxRequests
    /\ LET context == CreateConnectionContext(client_name)
           client_id == RequestClientId(client_order, client_rules, context)
       IN  IF ~ProcessRequest(client_rules, client_id, kind, name)
           THEN /\ front_last' = Request(kind, context, client_id, name, arguments, FALSE,
                                         FALSE, "invalid-request", "Access denied:", None, now)
                /\ UNCHANGED <<cache, processes>>
           ELSE \E outcome \in SessionOutcomes(processes, RequestServer(kind, name),
                                               kind) :
                \E payload \in ResultPayloads(outcome) :
                    LET result == RouteRequest(kind, cache, max_size, processes, name,
                                               arguments, now, outcome, payload)
                    IN  /\ cache' = result.cache
                        /\ processes' = result.processes
                        /\ front_last' = Request(kind, context, client_id, name, arguments,
                                                 TRUE, TRUE, result.code,
                                                 IF result.code = None THEN "result"
                                                 ELSE "Error:",
                                                 result.payload, now)
    /\ UNCHANGED <<max_size, now, last, client_rules, verdict, listing, naming, supVars,
                   client_order,
                   taskVars>>

\* route_request handed a GetPromptRequest
HandleGetPrompt(client_name, name) ==
    /\ LET context == CreateConnectionContext(client_name)
           result == RouteRequest("get_prompt", cache, max_size, processes, name, None,
                                  now, "ok", None)
       IN  front_last' = Request("get_prompt", context, context.client_id, name, None, TRUE,
                                 TRUE, result.code, "Error:", None, now)
    /\ UNCHANGED <<cacheVars, accessVars, routerVars, naming, supVars, client_order,
                   taskVars>>

\* identify_client on a context that carries no client id yet
CallIdentifyClient(client_name, transport_type) ==
    /\ LET context == ConnectionContext(client_name, transport_type, "")
       IN  front_last' = Request("identify", context,
                                 IdentifyClient(client_order, client_rules, context),
                                 <<>>, None, FALSE, FALSE, None, None, None, now)
    /\ UNCHANGED <<cacheVars, accessVars, routerVars, naming, supVars, client_order,
                   taskVars>>

\* stop_server between two requests, up to the first await of process.stop():
\* the process is in the dict and its status is STOPPING
StopServerBegins(server_id) ==
    /\ \E i \in 1..Len(processes) :
          /\ processes[i].server_id = server_id
          /\ processes[i].status = "running"
          /\ processes' = [processes EXCEPT ![i].status = "stopping"]
    /\ front_last' = Request("stop_server", CreateConnectionContext(""), None, server_id,
                             None, FALSE, FALSE, None, None, None, now)
    /\ UNCHANGED <<cacheVars, accessVars, listing, naming, supVars, client_order,
                   taskVars>>

\* stop_server after process.stop() has returned: the key is deleted
StopServerEnds(server_id) ==
    /\ \E i \in 1..Len(processes) :
          /\ processes[i].server_id = server_id
          /\ processes[i].status = "stopping"
    /\ processes' = StopIn(processes, server_id)
    /\ front_last' = Request("stopped_server", CreateConnectionContext(""), None,
                             server_id, None, FALSE, FALSE, None, None, None, now)
    /\ UNCHANGED <<cacheVars, accessVars, listing, naming, supVars, client_order,
                   taskVars>>

\* time passes between two requests: the ttl of a routed result, or more
Elapse(seconds) ==
    /\ now + seconds <= RouteTTL + 1
    /\ now' = now + seconds
    /\ UNCHANGED <<cache, max_size, last, accessVars, routerVars, naming, supVars,
                   frontVars,
                   taskVars>>

\* ClientRule
ClientRule(identify_by, allow, deny, deny_all_except_allowed) ==
    [identify_by |-> identify_by, allow |-> allow, deny |-> deny,
     deny_all_except_allowed |-> deny_all_except_allowed]

\* config.clients, in the order of the file: `ide` before a `default` that
\* denies everything; a `default` with no conditions before `ide`; an `ide`
\* with two conditions and no `default`; an `ide` whose pattern has its
\* wildcard in the middle
FrontConfigs ==
    {[order |-> <<"ide", "default">>,
      rules |-> [c \in {"ide", "default"} |->
                    IF c = "ide"
                    THEN ClientRule(<<[k \in {"client_info.name"} |-> "claude*"]>>,
                                    <<>>, <<>>, FALSE)
                    ELSE ClientRule(<<>>, <<>>, <<>>, TRUE)]],
     [order |-> <<"default", "ide">>,
      rules |-> [c \in {"ide", "default"} |->
                    IF c = "ide"
                    THEN ClientRule(<<[k \in {"client_info.name"} |-> "claude*"]>>,
                                    <<>>, <<>>, TRUE)
                    ELSE ClientRule(<<>>, <<>>,
                                    <<[server |-> <<"c">>, tools |-> << <<"z">> >>,
                                       resources |-> <<>>]>>, FALSE)]],
     [order |-> <<"ide">>,
      rules |-> [c \in {"ide"} |->
                    ClientRule(<<[k \in {"client_info.name"} |-> "vscode"],
                                 [k \in {"transport_type"} |-> "stdio"]>>,
                               <<>>, <<>>, FALSE)]],
     [order |-> <<"ide", "default">>,
      rules |-> [c \in {"ide", "default"} |->
                    IF c = "ide"
                    THEN ClientRule(<<[k \in {"client_info.name"} |-> "v*e"]>>,
                                    <<>>, <<>>, TRUE)
                    ELSE ClientRule(<<>>, <<>>, <<>>, FALSE)]]}

FrontInit ==
    /\ \E config \in FrontConfigs :
          /\ client_order = config.order
          /\ client_rules = config.rules
    /\ processes = <<NewProcess(<<"c">>, BaseServer, 0)>>
    /\ front_last = NoRequest
    /\ verdict = NoVerdict
    /\ listing = NoListing
    /\ CacheIdle /\ NamingIdle /\ SupervisorIdle /\ TaskIdle

\* requests of every client under every configuration
FrontNext ==
    \/ \E kind \in {"call_tool", "read_resource"}, client_name \in ClientNames :
          \E name \in IF kind = "call_tool" THEN FrontToolNames ELSE FrontUris : HandleRequest(kind, client_name, name, "{}")
    \/ \E client_name \in ClientNames, transport_type \in {"stdio", "sse"} :
          CallIdentifyClient(client_name, transport_type)

FrontSpec == FrontInit /\ [][FrontNext]_vars

\* the client `ide` under a rule that allows everything, `c` running
RouteInit ==
    /\ client_order = <<"ide">>
    /\ client_rules = [c \in {"ide"} |-> ClientRule(<<>>, <<>>, <<>>, FALSE)]
    /\ processes = <<NewProcess(<<"c">>, BaseServer, 0)>>
    /\ front_last = NoRequest
    /\ verdict = NoVerdict
    /\ listing = NoListing
    /\ CacheIdle /\ NamingIdle /\ SupervisorIdle /\ TaskIdle

\* the requests of one client, one after the other, and the time between them
RouteNext ==
    \/ \E kind \in {"call_tool", "read_resource"}, arguments \in FrontArguments :
          \E name \in IF kind = "call_tool" THEN FrontToolNames ELSE FrontUris : HandleRequest(kind, "ide", name, arguments)
    \/ \E name \in FrontToolNames : HandleGetPrompt("ide", name)
    \/ \E seconds \in {RouteTTL, RouteTTL + 1} : Elapse(seconds)
    \/ StopServerBegins(<<"c">>)
    \/ StopServerEnds(<<"c">>)

RouteSpec == RouteInit /\ [][RouteNext]_vars

(***************************************************************************)
(* Claims about the front-end and the router                               *)
(***************************************************************************)
\* the step is a call_tool request that was routed
C_RoutedCall ==
    /\ now' = now
    /\ front_last'.kind = "call_tool"
    /\ front_last'.routed

C_Denied ==
    LET id == front_last'.client_id
        name == front_last'.name
        dotted == \E i \in 1..Len(name) : name[i] = "."
        scheme == Len(name) >= 6 /\ SubSeq(name, 1, 6) = <<"m", "c", "p", ":", "/", "/">>
    IN  IF front_last'.kind = "call_tool"
        THEN ~CheckToolAccess(client_rules, id,
                              IF dotted THEN SplitOnce(name, <<".">>)[1] ELSE DefaultServer,
                              IF dotted THEN SplitOnce(name, <<".">>)[2] ELSE name)
        ELSE ~CheckResourceAccess(client_rules, id,
                                  IF scheme THEN ParseNamespacedResource(name)[1]
                                  ELSE DefaultServer,
                                  IF scheme THEN ParseNamespacedResource(name)[2]
                                  ELSE name)

\* C17: for every call_tool and read_resource request the handler runs the
\* access check before routing: when access is denied neither the router, nor
\* the cache, nor a backend is invoked for the request, and the handler
\* returns a payload whose text begins with `Access denied:`.
C17_DeniedIsNotRouted ==
    [][front_last'.kind \in {"call_tool", "read_resource"} /\ C_Denied
       => /\ ~front_last'.routed
          /\ cache' = cache
          /\ processes' = processes
          /\ front_last'.text = "Access denied:"]_vars

\* a call of a tool of the running backend was denied and went nowhere
C17_Witness ==
    /\ front_last.kind = "call_tool"
    /\ front_last.name = <<"c", ".", "t">>
    /\ ~front_last.allowed
    /\ ~front_last.routed
    /\ front_last.text = "Access denied:"
    /\ \A i \in 1..Len(processes) : processes[i].request_count = 0

\* the value of the context of the last identify_client under a key
C_ContextValue(key) ==
    IF key = "client_info.name" THEN front_last.client_name
    ELSE IF key = "transport_type" THEN front_last.transport_type
    ELSE ""

\* a pattern whose one wildcard is the `*` at its end asks for a prefix
C_ValueMatches(actual, expected) ==
    LET pattern == Chars(expected)
        prefix == SubSeq(pattern, 1, Len(pattern) - 1)
    IN  IF pattern # <<>> /\ pattern[Len(pattern)] = "*"
        THEN IF \A i \in 1..Len(prefix) : prefix[i] \notin {"*", "?", "["}
             THEN /\ Len(Chars(actual)) >= Len(prefix)
                  /\ SubSeq(Chars(actual), 1, Len(prefix)) = prefix
             ELSE C_Glob(Chars(actual), pattern)
        ELSE actual = expected

\* every condition of the rule at position i of the declared order matches
C_RuleMatches(i) ==
    LET conditions == client_rules[client_order[i]].identify_by
    IN  \A n \in 1..Len(conditions) :
            \A key \in DOMAIN conditions[n] :
                C_ValueMatches(C_ContextValue(key), conditions[n][key])

\* C18: identify_client returns the id of the first rule, in declared order,
\* all of whose identify_by conditions match the context (equality, or a
\* shell-style wildcard when the expected value ends in `*`), and `default`
\* when no rule matches; a rule `ide` with client_info.name `claude*`
\* resolves `claude-desktop` to `ide` and `vscode` to `default`.
C18_FirstMatchingRule ==
    front_last.kind = "identify" =>
        /\ \/ \E i \in 1..Len(client_order) :
                 /\ front_last.client_id = client_order[i]
                 /\ C_RuleMatches(i)
                 /\ \A j \in 1..(i - 1) : ~C_RuleMatches(j)
           \/ /\ front_last.client_id = "default"
              /\ \A i \in 1..Len(client_order) : ~C_RuleMatches(i)
        /\ client_order[1] = "ide"
           /\ client_rules["ide"].identify_by = <<[k \in {"client_info.name"} |-> "claude*"]>>
           => /\ front_last.client_name = "claude-desktop" => front_last.client_id = "ide"
              /\ front_last.client_name = "vscode" => front_last.client_id = "default"

\* `claude-desktop` was resolved to `ide` by the pattern `claude*`
C18_Witness ==
    /\ front_last.kind = "identify"
    /\ front_last.client_name = "claude-desktop"
    /\ front_last.client_id = "ide"
    /\ client_rules["ide"].identify_by = <<[k \in {"client_info.name"} |-> "claude*"]>>

\* C19: for every request handled by the front-end, the client id under
\* which the request is authorized and routed is the id the Client Identifier
\* resolves from the connection context (first matching ClientRule, else
\* `default`), not a value taken from the connection metadata.
C19_AuthorizedAsIdentified ==
    front_last.kind \in {"call_tool", "read_resource"} =>
        front_last.client_id =
            IdentifyClient(client_order, client_rules,
                           ConnectionContext(front_last.client_name,
                                             front_last.transport_type, ""))

\* C20: a call_tool or get_prompt request whose name has no `.`, and a
\* read_resource request whose uri does not begin with `mcp://`, is answered
\* by route_request with an error whose code is invalid-request.
C20_ParseErrorIsInvalidRequest ==
    /\ front_last.routed
    /\ \/ /\ front_last.kind \in {"call_tool", "get_prompt"}
          /\ \A i \in 1..Len(front_last.name) : front_last.name[i] # "."
       \/ /\ front_last.kind = "read_resource"
          /\ ~(/\ Len(front_last.name) >= 6
               /\ SubSeq(front_last.name, 1, 6) = <<"m", "c", "p", ":", "/", "/">>)
    => front_last.code = "invalid-request"

\* the step is a request that the router took to the cache and the backends
C_RoutedRequest ==
    /\ now' = now
    /\ front_last'.kind \in {"call_tool", "read_resource"}
    /\ front_last'.routed
    /\ RequestServer(front_last'.kind, front_last'.name) # ParseError

\* the server of the request of the step
C_RequestServer == RequestServer(front_last'.kind, front_last'.name)

\* the key the router files the request of the step under
C_RequestKey ==
    IF front_last'.kind = "call_tool"
    THEN <<C_RequestServer, "call_tool",
           <<ParseNamespacedTool(front_last'.name)[2], front_last'.arguments>>>>
    ELSE <<C_RequestServer, "read_resource",
           <<ParseNamespacedResource(front_last'.name)[2], "">>>>

\* the cache holds an entry for the key that has not expired
C_Cached(key) ==
    \E i \in 1..Len(cache) : cache[i].key = key /\ now <= cache[i].expires_at

\* a call of the step failed or timed out in the backend
C_BackendFailed ==
    \E i \in 1..Len(processes) : processes'[i].error_count > processes[i].error_count

\* C21: a call_tool request routed to a server id whose backend is not running
\* (absent from the session map, or stopped since an earlier call) is answered
\* with an invalid-request error, whatever the cache and the supervisor hold;
\* a call that failed or timed out in the backend is answered with an
\* internal-error.
C21_NotRunningIsInvalidRequest ==
    [][C_RoutedRequest /\ front_last'.kind = "call_tool"
       => /\ C_RequestServer \notin ProcessIds(processes)
             => front_last'.code = "invalid-request"
          /\ C_BackendFailed => front_last'.code = "internal-error"]_vars

\* C21, amended: the request for a server id that is absent from the session
\* map is answered with invalid-request when the cache holds no unexpired
\* result for its key, and with that result when it does; a call that failed
\* or timed out in the backend is answered with an internal-error.
C21_NotRunningIsInvalidRequestOnMiss ==
    [][C_RoutedRequest /\ front_last'.kind = "call_tool"
       => /\ C_RequestServer \notin ProcessIds(processes) /\ ~C_Cached(C_RequestKey)
             => front_last'.code = "invalid-request"
          /\ C_RequestServer \notin ProcessIds(processes) /\ C_Cached(C_RequestKey)
             => /\ front_last'.code = None
                /\ \E i \in 1..Len(cache) : /\ cache[i].key = C_RequestKey
                                             /\ cache[i].data = front_last'.payload
          /\ C_BackendFailed => front_last'.code = "internal-error"]_vars

\* the backend `c` was stopped after it had answered, the result expired,
\* and the same call was answered with invalid-request
C21_Witness ==
    /\ front_last.kind = "call_tool" /\ front_last.routed
    /\ front_last.name = <<"c", ".", "t">>
    /\ front_last.code = "invalid-request"
    /\ front_last.at = RouteTTL + 1
    /\ processes = <<>>

\* C22: the router stores a call_tool or read_resource outcome only when the
\* backend call succeeded: after a call that ended in a timeout, a backend
\* failure, an error result or an invalid-request, the cache holds no entry
\* for the key of the request that the call wrote.
C22_OnlySuccessIsCached ==
    [][C_RoutedRequest
       /\ (front_last'.code # None \/ front_last'.payload = ErrorResult)
       => \A i \in 1..Len(cache') :
             cache'[i].key = C_RequestKey
             => \E j \in 1..Len(cache) : cache[j] = cache'[i]]_vars

(***************************************************************************)
(* Claims about start_all_servers and the config watcher                   *)
(***************************************************************************)
\* the start of server_id in the start_all_servers of the step fails: it is
\* one of the starts that raise, or its transport is one that always raises
C_StartFails(server_id) ==
    \/ server_id \in sup_last'.failed
    \/ sm_config.servers[server_id].transport # "stdio"

\* C25: start_all_servers attempts one start for every enabled backend; the
\* failure of any subset of these starts does not prevent any other enabled
\* backend from being started and ending up running in the session map, and
\* start_all_servers itself does not raise.
C25_StartAllStartsTheOthers ==
    [][sup_last'.op = "start_all" /\ now' = now
       => /\ ~sup_last'.raised
          /\ \A server_id \in DOMAIN sm_config.servers :
                IF /\ sm_config.servers[server_id].enabled
                   /\ server_id \notin ProcessIds(processes)
                THEN IF C_StartFails(server_id)
                     THEN server_id \notin ProcessIds(processes')
                     ELSE /\ C_Running(processes', server_id)
                          /\ Cardinality({i \in 1..Len(processes') :
                                 processes'[i].server_id = server_id}) = 1
                ELSE \A i \in 1..Len(processes) :
                        processes[i].server_id = server_id
                        => \E j \in 1..Len(processes') : processes'[j] = processes[i]]_vars

\* the start of two of three servers failed and the third is running
C25_Witness ==
    /\ sup_last.op = "start_all"
    /\ sup_last.failed = {<<"a">>, <<"a", ".", "b">>}
    /\ Len(processes) = 1
    /\ processes[1].server_id = <<"c">>
    /\ processes[1].status = "running"

\* the file is one the manager would have started with: MCPManager.__init__
\* takes what load_config returns
C_InitialLoadAccepts(file) ==
    \A server_id \in DOMAIN file.servers :
        file.servers[server_id].transport \in {"stdio", "sse", "websocket"}

\* C24: when the mtime of the config file advances the watcher validates the
\* new file with the rules of the initial load; when the validation fails the
\* manager's configuration, the supervisor's configuration and the session map
\* stay exactly as they were, and the watcher keeps running.
C24_RejectedLikeInitialLoad ==
    [][sup_last'.op = "reload_skipped"
       => /\ ~C_InitialLoadAccepts(config_file)
          /\ mgr_config' = mgr_config
          /\ sm_config' = sm_config
          /\ processes' = processes
          /\ ~sup_last'.raised]_vars

(***************************************************************************)
(* MCPProcess step by step.  A method runs from one await to the next     *)
(* without any other task running; at an await the other tasks may run.    *)
(* session is "none" (self.session is None), "open" (the ClientSession is  *)
(* entered) or "ready" (initialize() has returned); child is the           *)
(* subprocess of stdio_client.                                             *)
(***************************************************************************)
\* MCPProcess.__init__
MCPProcess(server_id, server_config) ==
    [server_id |-> server_id, config |-> server_config, status |-> "stopped",
     session |-> "none", session_context |-> FALSE, stdio_context |-> FALSE,
     child |-> FALSE, start_time |-> NoTTL, request_count |-> 0, error_count |-> 0]

\* where a method stands after a step: at the await `pc`, or back at its
\* caller ("return", "raise")
Method(o, pc) == [object |-> o, pc |-> pc]

Done == {"idle", "return", "raise", "cancelled"}

\* what an awaited __aenter__, initialize() or __aexit__ comes to
AwaitOutcomes == {"ok", "error"}

\* _start_stdio, the except branch: the contexts that are set are left, the
\* status is FAILED and the error goes to the caller
FailStart(o) ==
    IF o.session_context /\ o.session # "none" THEN Method(o, "cleanup_session")
    ELSE IF o.stdio_context THEN Method(o, "cleanup_stdio")
    ELSE Method([o EXCEPT !.status = "failed"], "raise")

\* start() up to its first await: only a STOPPED process is started; sse and
\* websocket raise NotImplementedError, and so does a server the detector
\* cannot make out; stdio goes on to stdio_client(...).__aenter__()
EnterStart(o, detected) ==
    IF o.status # "stopped" THEN Method(o, "return")
    ELSE IF o.config.transport # "stdio" \/ ~detected
    THEN Method([o EXCEPT !.status = "failed"], "raise")
    ELSE Method([o EXCEPT !.status = "starting", !.stdio_context = TRUE], "stdio_enter")

\* a start() that reports RUNNING as soon as the session is entered
StartStepRunningEarly(o, pc, outcome, t) ==
    IF pc = "stdio_enter"
    THEN IF outcome = "ok"
         THEN Method([o EXCEPT !.child = TRUE, !.session_context = TRUE], "session_enter")
         ELSE FailStart(o)
    ELSE IF pc = "session_enter"
    THEN IF outcome = "ok"
         THEN Method([o EXCEPT !.session = "open", !.status = "running"], "initialize")
         ELSE FailStart(o)
    ELSE IF pc = "initialize"
    THEN IF outcome = "ok"
         THEN Method([o EXCEPT !.session = IF @ = "open" THEN "ready" ELSE @,
                               !.status = "running", !.start_time = t], "return")
         ELSE FailStart(o)
    ELSE IF pc = "cleanup_session"
    THEN FailStart([o EXCEPT !.session = "none", !.session_context = FALSE])
    ELSE FailStart([o EXCEPT !.stdio_context = FALSE, !.child = FALSE])

\* start() from one await to the next
StartStep(o, pc, outcome, t) ==
    IF pc = "stdio_enter"
    THEN IF outcome = "ok"
         THEN Method([o EXCEPT !.child = TRUE, !.session_context = TRUE], "session_enter")
         ELSE FailStart(o)
    ELSE IF pc = "session_enter"
    THEN IF outcome = "ok"
         THEN Method([o EXCEPT !.session = "open"], "initialize")
         ELSE FailStart(o)
    ELSE IF pc = "initialize"
    THEN IF outcome = "ok"
         THEN Method([o EXCEPT !.session = IF @ = "open" THEN "ready" ELSE @,
                               !.status = "running", !.start_time = t], "return")
         ELSE FailStart(o)
    ELSE IF pc = "cleanup_session"
    THEN FailStart([o EXCEPT !.session = "none", !.session_context = FALSE])
    ELSE FailStart([o EXCEPT !.stdio_context = FALSE, !.child = FALSE])

\* stop(), the part after a phase: the next context that is set, or the end
NextStop(o) ==
    IF o.session_context /\ o.session # "none" THEN Method(o, "session_exit")
    ELSE IF o.stdio_context THEN Method(o, "stdio_exit")
    ELSE Method([o EXCEPT !.status = "stopped"], "return")

\* stop() up to its first await: only a RUNNING or STARTING process is stopped
EnterStop(o) ==
    IF o.status \notin {"running", "starting"} THEN Method(o, "return")
    ELSE NextStop([o EXCEPT !.status = "stopping"])

\* a stop() that gives up when the session does not close
StopStepGivesUp(o, pc, outcome) ==
    IF outcome = "error"
    THEN Method([o EXCEPT !.status = "failed"], "return")
    ELSE IF pc = "session_exit"
    THEN NextStop([o EXCEPT !.session = "none", !.session_context = FALSE])
    ELSE NextStop([o EXCEPT !.stdio_context = FALSE, !.child = FALSE])

\* stop() from one await to the next: what an __aexit__ raises is caught, and
\* the finally clears the handle
StopStep(o, pc, outcome) ==
    IF pc = "session_exit"
    THEN NextStop([o EXCEPT !.session = "none", !.session_context = FALSE])
    ELSE NextStop([o EXCEPT !.stdio_context = FALSE, !.child = FALSE])

\* call_tool() up to its await: no session, no call
EnterCallTool(o) ==
    IF o.session = "none" THEN Method(o, "raise")
    ELSE Method([o EXCEPT !.request_count = @ + 1], "call_tool")

\* call_tool() after its await: a timeout and an error are counted and raised
CallToolStep(o, outcome) ==
    IF outcome = "ok" THEN Method(o, "return")
    ELSE Method([o EXCEPT !.error_count = @ + 1], "raise")

\* the method of a task from the await it stands at
MethodStep(call, o, pc, outcome, t) ==
    IF pc \in {"stdio_enter", "session_enter", "initialize", "cleanup_session",
               "cleanup_stdio"}
    THEN StartStep(o, pc, outcome, t)
    ELSE IF pc \in {"session_exit", "stdio_exit"}
    THEN StopStep(o, pc, outcome)
    ELSE CallToolStep(o, outcome)

\* the outcomes of the await a task stands at
PcOutcomes(pc) ==
    IF pc = "call_tool" THEN Outcomes
    ELSE IF pc \in {"cleanup_session", "cleanup_stdio", "sleep"} THEN {"ok"}
    ELSE AwaitOutcomes

Task(call, pc, server_id, object, at_status, exceptions) ==
    [call |-> call, pc |-> pc, server_id |-> server_id, object |-> object,
     at_status |-> at_status, exceptions |-> exceptions]

\* a task is inside start() of the object
Starting(i) ==
    \E t \in TaskIds : /\ tasks[t].object = i
                       /\ tasks[t].pc \in {"stdio_enter", "session_enter", "initialize",
                                          "cleanup_session", "cleanup_stdio"}

(***************************************************************************)
(* One MCPProcess under the calls of two tasks                             *)
(***************************************************************************)
\* a task calls start() of the process; the supervisor starts a process
\* before it hands it to anyone, so no other call is under way
CallStart(t) ==
    /\ \A u \in TaskIds : tasks[u].pc \in Done
    /\ \E detected \in BOOLEAN :
          LET m == EnterStart(objects[1], detected)
          IN  /\ objects' = [objects EXCEPT ![1] = m.object]
              /\ tasks' = [tasks EXCEPT ![t] = Task("start", m.pc, objects[1].server_id, 1,
                                                     objects[1].status, {})]
    /\ UNCHANGED <<cacheVars, accessVars, routerVars, naming, supVars, frontVars, registry>>

\* a task calls stop() of the process
CallStop(t) ==
    /\ tasks[t].pc \in Done
    /\ ~Starting(1)
    /\ LET m == EnterStop(objects[1])
       IN  /\ objects' = [objects EXCEPT ![1] = m.object]
           /\ tasks' = [tasks EXCEPT ![t] = Task("stop", m.pc, objects[1].server_id, 1,
                                                  objects[1].status, {})]
    /\ UNCHANGED <<cacheVars, accessVars, routerVars, naming, supVars, frontVars, registry>>

\* a task calls call_tool() of the process
CallCallTool(t) ==
    /\ tasks[t].pc \in Done
    /\ ~Starting(1)
    /\ objects[1].request_count <= MaxRequests
    /\ LET m == EnterCallTool(objects[1])
       IN  /\ objects' = [objects EXCEPT ![1] = m.object]
           /\ tasks' = [tasks EXCEPT ![t] = Task("call_tool", m.pc, objects[1].server_id,
                                                  1, objects[1].status, {})]
    /\ UNCHANGED <<cacheVars, accessVars, routerVars, naming, supVars, frontVars, registry>>

\* the await a task stands at comes to an end and the method runs on to its
\* next await or to its end
Advance(t) ==
    /\ tasks[t].call \in {"start", "stop", "call_tool"}
    /\ tasks[t].pc \notin Done
    /\ \E outcome \in PcOutcomes(tasks[t].pc) :
          LET m == MethodStep(tasks[t].call, objects[tasks[t].object], tasks[t].pc,
                              outcome, now)
          IN  /\ objects' = [objects EXCEPT ![tasks[t].object] = m.object]
              /\ tasks' = [tasks EXCEPT ![t].pc = m.pc,
                                        ![t].exceptions =
                                            IF outcome = "error" THEN @ \cup {tasks[t].pc}
                                            ELSE @]
    /\ UNCHANGED <<cacheVars, accessVars, routerVars, naming, supVars, frontVars, registry>>

\* a process as the supervisor creates it, for a stdio and for an sse server
ProcessInit ==
    /\ \E transport \in {"stdio", "sse"} :
          objects = <<MCPProcess(<<"c">>, [BaseServer EXCEPT !.transport = transport])>>
    /\ registry = [server_id \in {<<"c">>} |-> 0]
    /\ tasks = [t \in TaskIds |-> NoTask]
    /\ CacheIdle /\ AccessIdle /\ RouterIdle /\ NamingIdle /\ SupervisorIdle /\ FrontIdle

ProcessNext ==
    \E t \in TaskIds : CallStart(t) \/ CallStop(t) \/ CallCallTool(t) \/ Advance(t)

ProcessSpec == ProcessInit /\ [][ProcessNext]_vars

(***************************************************************************)
(* Claims about one backend session                                        *)
(***************************************************************************)
\* C26: in every reachable state of a backend session, the intermediate
\* states of start and stop included, the status is running if and only if
\* the session handle is open and initialized.
C26_RunningIffSessionReady ==
    \A i \in 1..Len(objects) :
        objects[i].status = "running" <=> objects[i].session = "ready"

\* C26, amended: a running session has an open and initialized handle, and a
\* handle that is open and initialized belongs to a session that is running
\* or on its way down (stopping, until the handle is released).
C26_RunningIffSessionReadyUnlessStopping ==
    \A i \in 1..Len(objects) :
        /\ objects[i].status = "running" => objects[i].session = "ready"
        /\ objects[i].session = "ready" => objects[i].status \in {"running", "stopping"}

\* stop() has set STOPPING and waits for the session to close
C26_Witness ==
    /\ Len(objects) = 1
    /\ objects[1].status = "stopping"
    /\ objects[1].session = "ready"
    /\ \E t \in TaskIds : tasks[t].call = "stop" /\ tasks[t].pc = "session_exit"

\* the step is the call of a method by task t
C_Calls(t, call) ==
    /\ tasks[t].pc \in Done
    /\ tasks'[t].call = call
    /\ tasks'[t] # tasks[t]

\* C28: start() goes on (the status moves to starting and the handshake is
\* attempted) when the status of the session is stopped or failed, and is a
\* no-op that leaves the status as it is in every other status.
C28_StartsWhenStoppedOrFailed ==
    [][\A t \in TaskIds :
          C_Calls(t, "start")
          => IF objects[1].status \in {"stopped", "failed"}
             THEN \/ objects'[1].status = "starting"
                  \/ tasks'[t].pc = "raise"
             ELSE /\ tasks'[t].pc = "return"
                  /\ objects'[1] = objects[1]]_vars

\* the changes of status of the state machine
C_Transitions ==
    {<<"stopped", "starting">>, <<"starting", "running">>, <<"running", "stopping">>,
     <<"stopping", "stopped">>}
    \cup {<<status, "failed">> :
             status \in {"stopped", "starting", "running", "stopping"}}

\* the method task t is in raised in this step: a start(), or a call_tool()
\* that had reached the session
C_Raises(t) ==
    /\ tasks'[t].pc = "raise"
    /\ tasks'[t] # tasks[t]
    /\ tasks'[t].call = "call_tool" => tasks[t].pc = "call_tool"

\* C29: a backend session follows stopped -> starting -> running -> stopping
\* -> stopped, and a failure of the handshake or of an operation on the
\* session (call_tool, read_resource, a list call) moves it to failed.
C29_StateMachine ==
    [][/\ \A i \in 1..Len(objects) :
             objects'[i].status # objects[i].status
             => <<objects[i].status, objects'[i].status>> \in C_Transitions
       /\ \A t \in TaskIds :
             C_Raises(t) /\ tasks'[t].call \in {"start", "call_tool"}
             => objects'[tasks'[t].object].status = "failed"]_vars

\* C30: stop() on a running session releases the session first and the
\* transport second; an error of either release is caught and the other one
\* still runs; when stop returns the session handle and the transport handle
\* are cleared and the status is stopped; stop never raises.
C30_StopReleasesSessionThenTransport ==
    [][\A t \in TaskIds :
          tasks'[t].call = "stop" /\ tasks'[t].at_status = "running"
          /\ tasks'[t] # tasks[t]
          => /\ tasks'[t].pc # "raise"
             /\ tasks'[t].pc = "session_exit" => objects'[1].stdio_context
             /\ tasks'[t].pc = "stdio_exit"
                => objects'[1].session = "none" /\ ~objects'[1].session_context
             /\ tasks'[t].pc = "return"
                => /\ objects'[1].session = "none"
                   /\ ~objects'[1].session_context
                   /\ ~objects'[1].stdio_context
                   /\ ~objects'[1].child
                   /\ objects'[1].status = "stopped"]_vars

\* a stop() of a running session, both of whose releases raised, has returned
C30_Witness ==
    /\ Len(objects) = 1
    /\ \E t \in TaskIds :
          /\ tasks[t].call = "stop" /\ tasks[t].pc = "return"
          /\ tasks[t].at_status = "running"
          /\ tasks[t].exceptions = {"session_exit", "stdio_exit"}
    /\ objects[1].status = "stopped"
    /\ objects[1].session = "none"
    /\ ~objects[1].stdio_context

(***************************************************************************)
(* MCPServerManager step by step: start_server, stop_server, restart_server *)
(* and call_tool as tasks that run between the awaits of one another       *)
(***************************************************************************)
Supervisor(objs, reg, task) == [objects |-> objs, registry |-> reg, task |-> task]

\* start_server up to the first await of process.start(): nothing to do for
\* an id that is in the dict or disabled, ValueError for one that is not
\* configured, else a new MCPProcess whose start() begins
StartServerFrom(objs, reg, task, config, detected) ==
    LET server_id == task.server_id
        m == EnterStart(MCPProcess(server_id, config.servers[server_id]), detected)
    IN  IF reg[server_id] # 0
        THEN Supervisor(objs, reg, [task EXCEPT !.pc = "return"])
        ELSE IF server_id \notin DOMAIN config.servers
        THEN Supervisor(objs, reg, [task EXCEPT !.pc = "raise"])
        ELSE IF ~config.servers[server_id].enabled
        THEN Supervisor(objs, reg, [task EXCEPT !.pc = "return"])
        ELSE Supervisor(Append(objs, m.object), reg,
                        [task EXCEPT !.pc = m.pc, !.object = Len(objs) + 1])

\* start_server after process.start() has returned: the dict takes the process
AfterStartReturns(objs, reg, task) ==
    Supervisor(objs, [reg EXCEPT ![task.server_id] = task.object],
               [task EXCEPT !.pc = "return"])

\* stop_server after process.stop() has returned: del self.processes[id],
\* a KeyError when the key is gone; restart_server goes on to start_server
AfterStopReturns(objs, reg, task, config, detected) ==
    IF reg[task.server_id] = 0
    THEN Supervisor(objs, reg, [task EXCEPT !.pc = "raise"])
    ELSE IF task.call \in {"restart_server", "health"}
    THEN StartServerFrom(objs, [reg EXCEPT ![task.server_id] = 0], task, config, detected)
    ELSE Supervisor(objs, [reg EXCEPT ![task.server_id] = 0],
                    [task EXCEPT !.pc = "return"])

\* stop_server up to the first await of process.stop()
StopServerFrom(objs, reg, task, config, detected) ==
    LET i == reg[task.server_id]
        m == EnterStop(objs[i])
        stopping == [task EXCEPT !.object = i, !.at_status = objs[i].status]
    IN  IF i = 0
        THEN Supervisor(objs, reg, [task EXCEPT !.pc = "return"])
        ELSE IF m.pc = "return"
        THEN AfterStopReturns([objs EXCEPT ![i] = m.object], reg, stopping, config,
                              detected)
        ELSE Supervisor([objs EXCEPT ![i] = m.object], reg, [stopping EXCEPT !.pc = m.pc])

\* restart_server: stop_server when the id is in the dict, then start_server
RestartServerFrom(objs, reg, task, config, detected) ==
    IF reg[task.server_id] # 0
    THEN StopServerFrom(objs, reg, task, config, detected)
    ELSE StartServerFrom(objs, reg, task, config, detected)

\* route_request for a call_tool, from the dispatch to the await of the
\* session: an id that is not in the dict and a process without a session are
\* answered at once
RouteFrom(objs, reg, task) ==
    LET i == reg[task.server_id]
        m == EnterCallTool(objs[i])
    IN  IF i = 0
        THEN Supervisor(objs, reg, [task EXCEPT !.pc = "return"])
        ELSE IF m.pc = "raise"
        THEN Supervisor(objs, reg, [task EXCEPT !.pc = "return", !.object = i])
        ELSE Supervisor([objs EXCEPT ![i] = m.object], reg,
                        [task EXCEPT !.pc = m.pc, !.object = i])

\* one cycle of _health_check_loop up to its first await: a task for the
\* process the dict holds when its status is RUNNING, whose health_check()
\* awaits the probe; with no task the loop sleeps
HealthFrom(objs, reg, task) ==
    LET i == reg[task.server_id]
    IN  IF i # 0 /\ objs[i].status = "running" /\ objs[i].session # "none"
        THEN Supervisor(objs, reg, [task EXCEPT !.pc = "probe", !.object = i,
                                                !.exceptions = {}])
        ELSE Supervisor(objs, reg, [task EXCEPT !.pc = "sleep", !.object = 0,
                                                !.exceptions = {}])

\* _check_server_health after the probe: a probe that failed, timed out or
\* raised is UNHEALTHY, and restart_server is called when the configuration
\* says so
AfterProbe(objs, reg, task, config, outcome, detected) ==
    IF outcome = "ok" \/ ~config.auto_restart_failed_servers
    THEN Supervisor(objs, reg, [task EXCEPT !.pc = "sleep"])
    ELSE RestartServerFrom(objs, reg, task, config, detected)

\* a health loop that what restart_server raises brings to its end
HealthCycleEndsRaising(st) ==
    IF st.task.call = "health" /\ st.task.pc = "return"
    THEN [st EXCEPT !.task.pc = "sleep"]
    ELSE IF st.task.call = "stop_all_servers" /\ st.task.pc = "raise"
    THEN [st EXCEPT !.task.pc = "return", !.task.exceptions = @ \cup {"stop_server"}]
    ELSE st

\* the end of a cycle of the health loop: what restart_server raised is caught
\* and logged by _check_server_health, gather returns, and the loop sleeps;
\* stop_all_servers gathers what its stop_server raised
HealthCycleEnds(st) ==
    IF st.task.call = "health" /\ st.task.pc \in {"return", "raise"}
    THEN [st EXCEPT !.task.pc = "sleep",
                    !.task.exceptions = IF st.task.pc = "raise"
                                        THEN @ \cup {"restart_server"} ELSE @]
    ELSE IF st.task.call = "stop_all_servers" /\ st.task.pc = "raise"
    THEN [st EXCEPT !.task.pc = "return", !.task.exceptions = @ \cup {"stop_server"}]
    ELSE st

\* the call of a task, from its beginning to its first await
CallFrom(objs, reg, task, config, detected) ==
    IF task.call = "start_server" THEN StartServerFrom(objs, reg, task, config, detected)
    ELSE IF task.call \in {"stop_server", "stop_all_servers"}
    THEN StopServerFrom(objs, reg, task, config, detected)
    ELSE IF task.call = "restart_server"
    THEN RestartServerFrom(objs, reg, task, config, detected)
    ELSE IF task.call = "health" THEN HealthFrom(objs, reg, task)
    ELSE RouteFrom(objs, reg, task)

\* the call of a task from the await it stands at: the method of the process
\* runs on, and when it is over the supervisor's function does
ResumeFrom(objs, reg, task, config, outcome, detected, t) ==
    LET m == MethodStep(task.call, objs[task.object], task.pc, outcome, t)
        stepped == [objs EXCEPT ![task.object] = m.object]
    IN  IF task.pc = "sleep" THEN HealthFrom(objs, reg, task)
        ELSE IF task.pc = "probe"
        THEN AfterProbe(objs, reg, task, config, outcome, detected)
        ELSE IF m.pc \notin Done
        THEN Supervisor(stepped, reg, [task EXCEPT !.pc = m.pc])
        ELSE IF task.pc \in {"session_exit", "stdio_exit"}
        THEN AfterStopReturns(stepped, reg, task, config, detected)
        ELSE IF task.call = "route"
        THEN Supervisor(stepped, reg, [task EXCEPT !.pc = "return"])
        ELSE IF m.pc = "return"
        THEN AfterStartReturns(stepped, reg, task)
        ELSE Supervisor(stepped, reg, [task EXCEPT !.pc = "raise"])

\* task.cancel() on the health loop: CancelledError is thrown at the await
\* the loop and its check stand at, no `except Exception` catches it, and the
\* loop breaks
CancelledTask(task) ==
    IF task.call = "health" /\ task.pc \notin Done
    THEN [task EXCEPT !.pc = "cancelled"]
    ELSE task

\* what the finally clauses of stop() do on the way out of a cancelled check
CancelledObject(o, pc) ==
    IF pc = "session_exit" THEN [o EXCEPT !.session = "none", !.session_context = FALSE]
    ELSE IF pc = "stdio_exit" THEN [o EXCEPT !.stdio_context = FALSE]
    ELSE o

\* the objects after stop_all_servers has cancelled the health loop
CancelledObjects(objs, tsks) ==
    [i \in 1..Len(objs) |->
        IF \E t \in DOMAIN tsks :
              /\ tsks[t].call = "health" /\ tsks[t].pc \notin Done
              /\ tsks[t].object = i
        THEN CancelledObject(objs[i],
                             tsks[CHOOSE t \in DOMAIN tsks :
                                     /\ tsks[t].call = "health"
                                     /\ tsks[t].pc \notin Done
                                     /\ tsks[t].object = i].pc)
        ELSE objs[i]]

\* the calls the tasks make
SupervisorCalls ==
    {"start_server", "stop_server", "restart_server", "route", "health",
     "stop_all_servers"}

\* a task that is done calls the supervisor or the router, or is the health
\* loop that start_all_servers creates; stop_all_servers cancels the health
\* loop before it stops the servers
BeginCall(t, call, server_id) ==
    /\ tasks[t].pc \in Done
    /\ Len(objects) < Cardinality(TaskIds)
    /\ \A i \in 1..Len(objects) : objects[i].request_count <= MaxRequests
    /\ call = "health" => \A u \in TaskIds : tasks[u].call # "health"
    /\ \E detected \in BOOLEAN :
          LET cancels == call = "stop_all_servers"
              objs == IF cancels THEN CancelledObjects(objects, tasks) ELSE objects
              tsks == IF cancels THEN [u \in TaskIds |-> CancelledTask(tasks[u])]
                      ELSE tasks
              st == HealthCycleEnds(CallFrom(objs, registry,
                                             Task(call, "idle", server_id, 0, None, {}),
                                             sm_config, detected))
          IN  /\ objects' = st.objects
              /\ registry' = st.registry
              /\ tasks' = [tsks EXCEPT ![t] = st.task]
    /\ UNCHANGED <<cacheVars, accessVars, routerVars, naming, supVars, frontVars>>

\* the await a task stands at comes to an end
Resume(t) ==
    /\ tasks[t].call \in SupervisorCalls
    /\ tasks[t].pc \notin Done
    /\ tasks[t].pc = "sleep" => Len(objects) < Cardinality(TaskIds)
    /\ \E outcome \in PcOutcomes(tasks[t].pc), detected \in BOOLEAN :
          LET st == HealthCycleEnds(ResumeFrom(objects, registry, tasks[t], sm_config,
                                               outcome, detected, now))
          IN  /\ objects' = st.objects
              /\ registry' = st.registry
              /\ tasks' = [tasks EXCEPT ![t] = st.task]
    /\ UNCHANGED <<cacheVars, accessVars, routerVars, naming, supVars, frontVars>>

\* a supervisor with one configured server and no session, under a
\* configuration that admits one request at a time
TaskInit ==
    /\ objects = <<>>
    /\ registry = [server_id \in {<<"c">>} |-> 0]
    /\ tasks = [t \in TaskIds |-> NoTask]
    /\ sm_config = [DefaultConfig EXCEPT !.max_concurrent_requests = 1]
    /\ mgr_config = sm_config
    /\ config_file = sm_config
    /\ sup_last = NoSupCall
    /\ CacheIdle /\ AccessIdle /\ RouterIdle /\ NamingIdle /\ FrontIdle

TaskNext ==
    \E t \in TaskIds :
        \/ \E call \in SupervisorCalls : BeginCall(t, call, <<"c">>)
        \/ Resume(t)

TaskSpec == TaskInit /\ [][TaskNext]_vars

(***************************************************************************)
(* Claims about the tasks of the supervisor and the router                 *)
(***************************************************************************)
\* the session holds a transport or a child process, or is between stopped
\* and stopped
C_Live(o) ==
    \/ o.child \/ o.stdio_context \/ o.session # "none"
    \/ o.status \in {"starting", "running", "stopping"}

\* C27: at every moment, under any interleaving of start_server, stop_server,
\* restart_server, the restarts of the health loop and the reloads, at most
\* one live BackendSession exists per server id, and a restart creates the new
\* session only after the session and the transport of the old one are
\* released.
C27_OneLiveSessionPerServer ==
    \A server_id \in DOMAIN registry :
        Cardinality({i \in 1..Len(objects) :
                        objects[i].server_id = server_id /\ C_Live(objects[i])}) <= 1

\* C23: at every moment the number of requests the router has dispatched and
\* that have not completed is at most runtime.max_concurrent_requests; a
\* request that arrives when the limit is reached waits for a free slot.
C23_InFlightWithinLimit ==
    Cardinality({t \in TaskIds : tasks[t].call = "route" /\ tasks[t].pc \notin Done})
        <= sm_config.max_concurrent_requests

(***************************************************************************)
(* Claims about reloads and health cycles                                  *)
(***************************************************************************)
\* C33: after reload_config has completed and restarted a server whose
\* ServerConfig changed, the new session of that server was started from the
\* ServerConfig of the new configuration, whether or not the same reload
\* added other servers.
C33_RestartedFromNewConfig ==
    [][sup_last'.op = "reload" /\ ~sup_last'.raised =>
          \A id \in DOMAIN mgr_config.servers \cap DOMAIN config_file.servers :
              /\ C_Differs(mgr_config.servers[id], config_file.servers[id])
              /\ C_Running(processes, id)
              /\ id \in ProcessIds(processes')
              => ProcessOf(processes', id).config = config_file.servers[id]]_vars

\* C35: whenever no supervisor operation is in progress, every server id in
\* the session map is a key of the supervisor's current configuration and is
\* enabled there, after any sequence of reloads.
C35_MapWithinConfig ==
    \A id \in ProcessIds(processes) :
        /\ id \in DOMAIN sm_config.servers
        /\ sm_config.servers[id].enabled

\* C36: reload_config is all-or-nothing: when applying the changes fails
\* part-way, the manager and the supervisor both still hold the old
\* configuration and the failed reload has stopped and started no server.
C36_ReloadAllOrNothing ==
    [][sup_last'.op = "reload" /\ sup_last'.raised =>
          /\ mgr_config' = mgr_config
          /\ sm_config' = mgr_config'
          /\ processes' = processes]_vars

\* a health cycle that no other operation runs beside leaves a server whose
\* restart has raised absent, and touches no server that is not running
C_HealthLeavesFailedAbsent ==
    [][sup_last'.op = "health" =>
          /\ \A id \in sup_last'.failed : id \notin ProcessIds(processes')
          /\ sup_last'.unhealthy \subseteq
                {id \in ProcessIds(processes) : C_Running(processes, id)}
          /\ \A id \in ServerIds :
                ~(id \in ProcessIds(processes) /\ C_Running(processes, id))
                    => C_Untouched(id)]_vars

(***************************************************************************)
(* Claims about the health loop and the tasks beside it                    *)
(***************************************************************************)
\* C31: the health loop never terminates because of a failing probe or a
\* failing restart: after a cycle in which a probe fails, times out or raises,
\* or in which the restart raises, the loop goes on to its sleep and to the
\* next cycle; it ends only when stop_all_servers cancels it.
C31_HealthLoopEndsOnlyWhenCancelled ==
    [][\A t \in TaskIds :
          tasks[t].call = "health" /\ tasks[t].pc \notin Done /\ tasks'[t] # tasks[t]
          => /\ tasks'[t].call = "health"
             /\ tasks'[t].pc \in Done
                => /\ tasks'[t].pc = "cancelled"
                   /\ \E u \in TaskIds \ {t} :
                         /\ tasks[u].pc \in Done
                         /\ tasks'[u].call = "stop_all_servers"
             /\ tasks[t].pc = "sleep" => tasks'[t].pc \in {"probe", "sleep", "cancelled"}
             /\ tasks'[t].exceptions # {} => tasks'[t].pc \in {"sleep", "cancelled"}]_vars

\* the restart of a cycle of the health loop has raised, and the loop sleeps
\* until the next cycle
C31_Witness ==
    \E t \in TaskIds :
        /\ tasks[t].call = "health"
        /\ tasks[t].pc = "sleep"
        /\ tasks[t].exceptions = {"restart_server"}

\* the task is inside an operation that changes the session map
C_Mutating(task) ==
    /\ task.pc \notin Done
    /\ \/ task.call \in {"start_server", "stop_server", "restart_server",
                         "stop_all_servers"}
       \/ task.call = "health" /\ task.pc \notin {"probe", "sleep"}

\* C32: the supervisor operations that change the session map (start, stop,
\* restart, reload, the restarts of the health loop) are serialized: no two of
\* them are in progress at the same time.
C32_OperationsSerialized ==
    Cardinality({t \in TaskIds : C_Mutating(tasks[t])}) <= 1

\* the step is the call of restart_server by the check of the health loop
C_HealthRestarts(t) ==
    /\ tasks[t].call = "health"
    /\ tasks[t].pc = "probe"
    /\ \/ tasks'[t].pc \notin {"probe", "sleep", "cancelled"}
       \/ tasks'[t].exceptions # tasks[t].exceptions
       \/ Len(objects') > Len(objects)

\* C37: when the start of a restart by the health loop fails, the server is
\* left absent from the session map, and the health loop probes and restarts
\* only servers that are in the session map with the status running.
C37_HealthRestartsOnlyRunning ==
    [][\A t \in TaskIds :
          /\ C_HealthRestarts(t)
                => /\ registry[tasks[t].server_id] # 0
                   /\ objects[registry[tasks[t].server_id]].status = "running"
          /\ tasks[t].call = "health" /\ tasks'[t].pc = "sleep"
             /\ "restart_server" \in tasks'[t].exceptions \ tasks[t].exceptions
             /\ tasks'[t].object # 0
                => registry'[tasks[t].server_id] # tasks'[t].object]_vars

\* C38: stop_server(id) never raises and leaves id absent from the session
\* map, also when two stop_server(id) or restart_server(id) calls for the same
\* id interleave.
C38_StopServerNeverRaises ==
    [][\A t \in TaskIds :
          /\ tasks'[t].call \in {"stop_server", "restart_server"}
          /\ tasks'[t] # tasks[t]
          /\ tasks'[t].pc \notin {"session_exit", "stdio_exit"}
          /\ \/ tasks[t].pc \in {"session_exit", "stdio_exit"}
             \/ tasks[t].pc \in Done /\ tasks'[t].call = "stop_server"
          => /\ ~(tasks'[t].pc = "raise" /\ Len(objects') = Len(objects))
             /\ tasks'[t].call = "stop_server"
                => registry'[tasks'[t].server_id] = 0]_vars

(***************************************************************************)
(* Claims about the cache shared by the clients                            *)
(***************************************************************************)
\* C40: a client for which check_tool_access(client, server, tool) is false
\* never receives a result of that tool through the call_tool handler, also
\* when the identical call of another client has put the result into the
\* shared cache (the cache key does not hold the client id).
C40_DeniedGetsNoCachedResult ==
    [][/\ front_last'.kind = "call_tool"
       /\ ParseNamespacedTool(front_last'.name) # ParseError
       /\ ~CheckToolAccess(client_rules, front_last'.client_id,
                           ParseNamespacedTool(front_last'.name)[1],
                           ParseNamespacedTool(front_last'.name)[2])
       => /\ front_last'.payload = None
          /\ ~front_last'.routed
          /\ cache' = cache]_vars

\* the call c.t of a client that is denied has been answered while the cache
\* holds the result of the same call of another client
C40_Witness ==
    /\ front_last.kind = "call_tool"
    /\ front_last.name = <<"c", ".", "t">>
    /\ ~front_last.allowed
    /\ front_last.payload = None
    /\ \E i \in 1..Len(cache) :
          /\ cache[i].key = GenerateCacheKey(<<"c">>, "call_tool",
                                             <<<<"t">>, front_last.arguments>>)
          /\ now <= cache[i].expires_at

(***************************************************************************)
(* Claims about rules that list items of one kind                          *)
(***************************************************************************)
\* the rule names the server of the last check and lists no item of the kind
\* that was checked, but items of the other kind
C_ListsOtherKindOnly(access_rule) ==
    /\ access_rule.server = verdict.server
    /\ IF verdict.kind = "resource"
       THEN access_rule.resources = <<>> /\ access_rule.tools # <<>>
       ELSE access_rule.tools = <<>> /\ access_rule.resources # <<>>

\* C39: an access rule that names a server and lists only tools matches every
\* resource of that server in check_resource_access, and a rule that lists
\* only resources matches every tool of that server in check_tool_access: a
\* deny rule restricted to some tools denies all resources of the server, and
\* such an allow rule allows them when no deny rule matches.
C39_OtherKindMatchesAll ==
    verdict.kind \in {"tool", "resource"} /\ C_HasRule
    => /\ (\E i \in 1..Len(C_Rule.deny) : C_ListsOtherKindOnly(C_Rule.deny[i]))
          => ~verdict.result
       /\ /\ \E i \in 1..Len(C_Rule.allow) : C_ListsOtherKindOnly(C_Rule.allow[i])
          /\ \A i \in 1..Len(C_Rule.deny) : C_Rule.deny[i].server # verdict.server
          => verdict.result

\* a resource of server a was denied to a client whose one deny rule names
\* the tool t of a, and who is allowed whatever no rule names
C39_Witness ==
    /\ verdict.kind = "resource"
    /\ verdict.server = <<"a">>
    /\ C_HasRule
    /\ C_Rule.deny = <<[server |-> <<"a">>, tools |-> << <<"t">> >>, resources |-> <<>>]>>
    /\ C_Rule.allow = <<>>
    /\ ~C_Rule.deny_all_except_allowed
    /\ ~verdict.result

(***************************************************************************)
(* The permission engine across a reload.  MCPManager.__init__ builds one  *)
(* PermissionEngine from the configuration and hands that object to the    *)
(* router and to the middleware; client_rules is the client_rules of that  *)
(* object.  The file names the same servers and other client rules.        *)
(***************************************************************************)
\* config.clients of the configurations the manager is built with and reads
ReloadClients == {[client_id \in {"default"} |-> d] : d \in DefaultRules}

ReloadInit ==
    /\ processes = <<>>
    /\ \E clients \in ReloadClients :
          /\ sm_config = [DefaultConfig EXCEPT !.clients = clients]
          /\ mgr_config = sm_config
          /\ client_rules = mgr_config.clients
    /\ \E clients \in ReloadClients :
          config_file = [DefaultConfig EXCEPT !.clients = clients]
    /\ verdict = NoVerdict
    /\ sup_last = NoSupCall
    /\ listing = NoListing
    /\ CacheIdle /\ NamingIdle /\ FrontIdle /\ TaskIdle

ReloadNext ==
    \/ ReloadConfig
    \/ \E c \in ClientIds, s \in ServerIds, t \in ToolNames : CallCheckToolAccess(c, s, t)
    \/ \E c \in ClientIds, s \in ServerIds, u \in ResourceUris : CallCheckResourceAccess(c, s, u)

ReloadSpec == ReloadInit /\ [][ReloadNext]_vars

\* C34: after reload_config has completed without raising, every access
\* check the middleware makes gives the answer the client rules of the new
\* configuration give.
C34_DecisionsUseNewRules ==
    [][(/\ sup_last.op = "reload" /\ ~sup_last.raised
        /\ verdict' # verdict)
       => verdict'.result =
            IF verdict'.kind = "tool"
            THEN CheckToolAccess(mgr_config.clients, verdict'.client, verdict'.server,
                                 verdict'.item)
            ELSE CheckResourceAccess(mgr_config.clients, verdict'.client,
                                     verdict'.server, verdict'.item)]_vars

====
